---- MODULE Spec2Model ----
(***************************************************************************)
(* Checkerboard intrinsics calibration (main_intrinsicsCalibration.cpp).   *)
(*                                                                         *)
(* The scene (sfmData) is four maps: views, intrinsics, poses, landmarks.  *)
(* A run of aliceVision_main parses the command line, loads the scene and  *)
(* one detection set per view, calls process_innerGrids (single image,     *)
(* nested boards), saves the scene and exits; its useBetaFeatureInnerGrids *)
(* is true and has no option, so process_basic (several views, Zhang's     *)
(* method) runs only when a caller of its own calls it.                    *)
(*                                                                         *)
(* Numbers.  Detected corners are at integer pixels; the coordinates of    *)
(* the observations are the doubles the code computes from them, bit for   *)
(* bit.  Where the code has a product followed by a sum, a build may round *)
(* twice or contract the two into a fused multiply-add that rounds once:   *)
(* fpContract tells which build runs.  Lengths of the nested-board mode    *)
(* are counted in units of 0.25, the first value                           *)
(* of localSquareSize, so that every value the code computes (a product of *)
(* an integer offset and a power of two times 0.25) is exact.  Distances   *)
(* to the image centre are compared through 4*dist^2, an integer: the code *)
(* compares norms, and x |-> 4*x^2 is strictly increasing on the           *)
(* non-negative reals.  A fraction n/d is the pair <<n, d>>.               *)
(*                                                                         *)
(* The robust estimators (ACRANSAC) and the bundle adjustment are external *)
(* to the file: the number of inliers and the solver's verdict are chosen  *)
(* nondeterministically.                                                   *)
(***************************************************************************)
EXTENDS Integers, Sequences, FiniteSets, TLC

VARIABLES
    entry,                      \* the function the run entered: aliceVision_main, or
                                \* process_basic called by a caller of its own
    useBetaFeatureInnerGrids,   \* main: which procedure main runs (line 658: true)
    useSimplePinhole,           \* main: command line flag
    fpContract,                 \* the build: TRUE when the compiler contracts a product
                                \* and the sum that follows it into one fused multiply-add
    boardsAllImages,            \* view id -> detector (boards, corners)
    views, intrinsics, poses, landmarks,      \* sfmData
    pc,                         \* position in the run
    result,                     \* value returned by the procedure (read once pc is "returned")
    logError,                   \* last ALICEVISION_LOG_ERROR message
    exitCode,                   \* value returned by aliceVision_main (read once pc is "exit")
    saved,                      \* TRUE once sfmDataIO::Save has written the scene
    baCalls,                    \* number of calls of ba.adjust
    baFailed,                   \* history: TRUE once a call of ba.adjust returned false
    undefinedRead,              \* history: TRUE once corners[UndefinedIndexT] was evaluated
    viewId, view,               \* process_innerGrids: the single view
    boards,                     \* process_innerGrids: sorted local copy of the boards
    idx_checkerboard, idx_checkerboard_valid, localSquareSize, vec_inliers,
    processed,                  \* history: what each loop iteration did
    intrinsicPos,               \* process_basic: position in the intrinsics map
    first, global_max_checkerboard_w, global_max_checkerboard_h,
    homographies,               \* process_basic: view ids with an accepted homography
    solved,                     \* history: what each process_basic iteration did
    loaded,                     \* history: the scene as sfmDataIO::Load read it
    Start, End, nBins_by_interval, nBins,     \* Histogram: range, bins per unit, bins
    freq, overflow, underflow,  \* Histogram: the counters
    adds,                       \* history: number of calls of Histogram::Add(x)
    lastX,                      \* history: the argument of the last call
    constructed,                \* history: TRUE once a Histogram was constructed
    histFault,                  \* history: TRUE once Add wrote outside freq
    reconstructedPairs,         \* bootstrapping: the pairs read from the pairs directory
    pairPos,                    \* bootstrapping: position of the loop over the pairs
    bestScore, bestPair, bestUsedTracks,
    bootPc,                     \* bootstrapping: position in aliceVision_main
    builtFrom,                  \* history: << the pair buildSfmData was called with >>
    bootExit                    \* bootstrapping: how aliceVision_main ended

vars == << entry, useBetaFeatureInnerGrids, useSimplePinhole, fpContract, boardsAllImages,
           views, intrinsics, poses, landmarks, pc, result, logError, exitCode,
           saved, baCalls, baFailed, undefinedRead, viewId, view, boards, idx_checkerboard,
           idx_checkerboard_valid, localSquareSize, vec_inliers, processed,
           intrinsicPos, first, global_max_checkerboard_w,
           global_max_checkerboard_h, homographies, solved, loaded,
           Start, End, nBins_by_interval, nBins, freq, overflow, underflow, adds,
           lastX, constructed, histFault, reconstructedPairs, pairPos, bestScore, bestPair,
           bestUsedTracks, bootPc, builtFrom, bootExit >>

sfmVars == << views, intrinsics, poses, landmarks >>
histVars == << Start, End, nBins_by_interval, nBins, freq, overflow, underflow, adds,
              lastX, constructed, histFault >>
bootVars == << reconstructedPairs, pairPos, bestScore, bestPair, bestUsedTracks, bootPc,
              builtFrom, bootExit >>
\* what no step of the calibration changes: its inputs and the other programs
inputVars == << entry, useBetaFeatureInnerGrids, useSimplePinhole, fpContract, loaded,
               histVars, bootVars >>
innerVars == << viewId, view, boards, idx_checkerboard, idx_checkerboard_valid,
                localSquareSize, vec_inliers, processed >>
basicVars == << intrinsicPos, first, global_max_checkerboard_w,
                global_max_checkerboard_h, homographies, solved >>
mainVars == << exitCode, saved, undefinedRead >>

(***************************************************************************)
(* Constants of the program.                                               *)
(***************************************************************************)
\* std::numeric_limits<IndexT>::max(), 2^32 - 1, written as the 32-bit value -1
UndefinedIndexT == -1
MinBoardPoints == 30
MinPoseInliers == 10
MinHomographyInliers == 10
DoublingBoards == 2
InitialSquareSize == 1
EXIT_SUCCESS == 0
EXIT_FAILURE == 1

\* std::numeric_limits<double>::max() on the 4*dist^2 scale: above every distance
DoubleMax == 1000000000

(***************************************************************************)
(* Bounds of the model.                                                    *)
(***************************************************************************)
MaxBoards == 4

(***************************************************************************)
(* Maps (std::map) as functions.                                           *)
(***************************************************************************)
EmptyMap == << >>

Put(f, k, v) == [x \in (DOMAIN f) \cup {k} |-> IF x = k THEN v ELSE f[x]]

Abs(x) == IF x < 0 THEN -x ELSE x

Range(seq) == {seq[k] : k \in DOMAIN seq}

RECURSIVE SetToSortedSeq(_)
SetToSortedSeq(S) ==
    IF S = {} THEN << >>
    ELSE LET m == CHOOSE x \in S : \A y \in S : x <= y
         IN  << m >> \o SetToSortedSeq(S \ {m})

(***************************************************************************)
(* Numbers.                                                                *)
(***************************************************************************)
Min(a, b) == IF a < b THEN a ELSE b

Sgn(x) == IF x < 0 THEN -1 ELSE IF x > 0 THEN 1 ELSE 0

RECURSIVE Gcd(_, _)
Gcd(a, b) == IF b = 0 THEN a ELSE Gcd(b, a % b)

\* 2^n, for n >= 0
RECURSIVE Power2(_)
Power2(n) == IF n = 0 THEN 1 ELSE 2 * Power2(n - 1)

RECURSIVE IsPowerOf2(_)
IsPowerOf2(n) == n = 1 \/ (n > 1 /\ n % 2 = 0 /\ IsPowerOf2(n \div 2))

\* the exponent u of the double nearest to n/d: 2^u <= n/d < 2^(u+1)
RECURSIVE FloorLog2(_, _)
FloorLog2(n, d) ==
    IF n >= 2 * d THEN FloorLog2(n, 2 * d) + 1
    ELSE IF n < d THEN FloorLog2(2 * n, d) - 1
    ELSE 0

\* (n * 2^s) mod d, eight bits at a time
RECURSIVE ShiftMod(_, _, _)
ShiftMod(n, s, d) ==
    IF s <= 8 THEN (n * Power2(s)) % d ELSE ShiftMod((256 * n) % d, s - 8, d)

\* the number of bits of n >= 0
RECURSIVE Bits(_)
Bits(n) == IF n = 0 THEN 0 ELSE 1 + Bits(n \div 2)

\* the number of factors 2 of n # 0
RECURSIVE TwoExp(_)
TwoExp(n) == IF n % 2 # 0 THEN 0 ELSE 1 + TwoExp(n \div 2)

(***************************************************************************)
(* Whole numbers of any size.  A number n >= 0 is the sequence of its      *)
(* limbs, digits in base 2^15, the least significant first and the last    *)
(* one not zero; << >> is 0.                                               *)
(***************************************************************************)
LimbBase == Power2(15)

LimbBits == Bits(LimbBase - 1)

RECURSIVE BigNat(_)
BigNat(n) == IF n = 0 THEN << >> ELSE << n % LimbBase >> \o BigNat(n \div LimbBase)

\* a without the zero limbs at its top
RECURSIVE BigTrim(_)
BigTrim(a) ==
    IF a = << >> \/ a[Len(a)] # 0 THEN a ELSE BigTrim(SubSeq(a, 1, Len(a) - 1))

BigLimb(a, i) == IF i <= Len(a) THEN a[i] ELSE 0

\* the limbs from i on of a + b + c
RECURSIVE BigAddFrom(_, _, _, _)
BigAddFrom(a, b, i, c) ==
    IF i > Len(a) /\ i > Len(b) THEN BigNat(c)
    ELSE << (BigLimb(a, i) + BigLimb(b, i) + c) % LimbBase >>
         \o BigAddFrom(a, b, i + 1, (BigLimb(a, i) + BigLimb(b, i) + c) \div LimbBase)

BigAdd(a, b) == BigAddFrom(a, b, 1, 0)

\* the limbs from i on of a - b - c, for a >= b
RECURSIVE BigSubFrom(_, _, _, _)
BigSubFrom(a, b, i, c) ==
    IF i > Len(a) THEN << >>
    ELSE << (a[i] - BigLimb(b, i) - c + LimbBase) % LimbBase >>
         \o BigSubFrom(a, b, i + 1, IF a[i] - BigLimb(b, i) - c < 0 THEN 1 ELSE 0)

BigSub(a, b) == BigTrim(BigSubFrom(a, b, 1, 0))

RECURSIVE BigCmpFrom(_, _, _)
BigCmpFrom(a, b, i) ==
    IF i = 0 THEN 0
    ELSE IF a[i] # b[i] THEN Sgn(a[i] - b[i])
    ELSE BigCmpFrom(a, b, i - 1)

\* -1, 0 or 1 as a is below, equal to or above b
BigCmp(a, b) ==
    IF Len(a) # Len(b) THEN Sgn(Len(a) - Len(b)) ELSE BigCmpFrom(a, b, Len(a))

\* the limbs from i on of a * m + c, for 0 < m <= LimbBase
RECURSIVE BigMulFrom(_, _, _, _)
BigMulFrom(a, m, i, c) ==
    IF i > Len(a) THEN BigNat(c)
    ELSE << (a[i] * m + c) % LimbBase >>
         \o BigMulFrom(a, m, i + 1, (a[i] * m + c) \div LimbBase)

BigMulSmall(a, m) == IF m = 0 THEN << >> ELSE BigMulFrom(a, m, 1, 0)

\* a * LimbBase^n
BigShiftLimbs(a, n) == IF a = << >> THEN a ELSE [i \in 1 .. n |-> 0] \o a

RECURSIVE BigMul(_, _)
BigMul(a, b) ==
    IF b = << >> THEN << >>
    ELSE BigAdd(BigMulSmall(a, Head(b)), BigShiftLimbs(BigMul(a, Tail(b)), 1))

BigDivPut(qr, q) == << Append(qr[1], q), qr[2] >>

\* << the quotient, the remainder >> of r * LimbBase^i + a[1 .. i] by m, for
\* r < m <= LimbBase; the quotient's limbs come untrimmed
RECURSIVE BigDivFrom(_, _, _, _)
BigDivFrom(a, m, i, r) ==
    IF i = 0 THEN << << >>, r >>
    ELSE BigDivPut(BigDivFrom(a, m, i - 1, (r * LimbBase + a[i]) % m),
                   (r * LimbBase + a[i]) \div m)

BigDivTrim(qr) == << BigTrim(qr[1]), qr[2] >>

\* << a \div m, a % m >>, for 0 < m <= LimbBase
BigDivSmall(a, m) == BigDivTrim(BigDivFrom(a, m, Len(a), 0))

\* the number of bits of a
BigBits(a) == IF a = << >> THEN 0 ELSE LimbBits * (Len(a) - 1) + Bits(a[Len(a)])

\* a * 2^k
BigShl(a, k) == BigShiftLimbs(BigMulSmall(a, Power2(k % LimbBits)), k \div LimbBits)

\* a \div 2^k
BigShr(a, k) ==
    IF k \div LimbBits >= Len(a) THEN << >>
    ELSE BigDivSmall(SubSeq(a, k \div LimbBits + 1, Len(a)), Power2(k % LimbBits))[1]

BigOdd(a) == a # << >> /\ a[1] % 2 = 1

\* the number of factors 2 of a # 0, from limb i on
RECURSIVE BigTwoExpFrom(_, _)
BigTwoExpFrom(a, i) ==
    IF a[i] # 0 THEN LimbBits * (i - 1) + TwoExp(a[i]) ELSE BigTwoExpFrom(a, i + 1)

BigTwoExp(a) == BigTwoExpFrom(a, 1)

(***************************************************************************)
(* Doubles.  A double is << s, m, e >>, the number s * m * 2^e with the    *)
(* sign s in {-1, 0, 1} and m odd of at most 53 bits; << 0, << >>, 0 >> is *)
(* zero.  Every operation is the exact operation followed by the rounding  *)
(* to the nearest double, ties to the even one.  The exponents of the      *)
(* program's numbers are far from the ends of the range of a double,       *)
(* which has no part here.                                                 *)
(***************************************************************************)
DZero == << 0, << >>, 0 >>

\* s * m * 2^e with the factors 2 of m moved into e
DNorm(s, m, e) ==
    IF s = 0 \/ m = << >> THEN DZero
    ELSE << s, BigShr(m, BigTwoExp(m)), e + BigTwoExp(m) >>

\* the integer k, of 31 bits at most
DInt(k) ==
    IF k = 0 THEN DZero
    ELSE << Sgn(k), BigNat(Abs(k) \div Power2(TwoExp(k))), TwoExp(k) >>

DNeg(v) == << -v[1], v[2], v[3] >>

\* -1, 0 or 1
DSign(v) == v[1]

\* m without its k lowest bits, rounded: t is m \div 2^(k - 1), of 54 bits,
\* the 53 bits kept and the first bit dropped.  The kept bits go up by one
\* when the dropped bit is set and either a lower bit of m is set or the
\* kept bits are odd
DRoundCut(s, m, e, k, t) ==
    DNorm(s,
          IF BigOdd(t) /\ (BigTwoExp(m) < k - 1 \/ BigOdd(BigShr(t, 1)))
          THEN BigAdd(BigShr(t, 1), << 1 >>)
          ELSE BigShr(t, 1),
          e + k)

\* the double nearest to s * m * 2^e
DRound(s, m, e) ==
    IF BigBits(m) <= 53 THEN DNorm(s, m, e)
    ELSE DRoundCut(s, m, e, BigBits(m) - 53, BigShr(m, BigBits(m) - 54))

DRoundParts(x) == DRound(x[1], x[2], x[3])

\* sv * a * 2^e + sw * b * 2^e, exact
DSumAligned(sv, a, sw, b, e) ==
    IF sv = sw THEN << sv, BigAdd(a, b), e >>
    ELSE IF BigCmp(a, b) = 0 THEN DZero
    ELSE IF BigCmp(a, b) > 0 THEN << sv, BigSub(a, b), e >>
    ELSE << sw, BigSub(b, a), e >>

\* v + w, exact: << s, m, e >> with m not cut to 53 bits
DSumExact(v, w) ==
    IF v[1] = 0 THEN w
    ELSE IF w[1] = 0 THEN v
    ELSE DSumAligned(v[1], BigShl(v[2], v[3] - Min(v[3], w[3])),
                     w[1], BigShl(w[2], w[3] - Min(v[3], w[3])), Min(v[3], w[3]))

\* v * w, exact
DProductExact(v, w) ==
    IF v[1] = 0 \/ w[1] = 0 THEN DZero
    ELSE << v[1] * w[1], BigMul(v[2], w[2]), v[3] + w[3] >>

\* std::fma(v, w, z): v * w + z with one rounding
DFma(v, w, z) == DRoundParts(DSumExact(DProductExact(v, w), z))

\* v + n, for an integer n
DAdd(v, n) == DRoundParts(DSumExact(v, DInt(n)))

\* v * m, for an integer m
DMul(v, m) == DRoundParts(DProductExact(v, DInt(m)))

\* the quotient and the remainder qr of m * 2^k by the divisor: twice the
\* quotient, of 55 bits at least, and one more when the division left a
\* remainder, so that the rounding sees on which side of a tie it is
DQuotient(s, e, k, qr) ==
    DRound(s, BigAdd(BigMulSmall(qr[1], 2), IF qr[2] = 0 THEN << >> ELSE << 1 >>), e - k - 1)

DDivBy(v, s, d, k) == DQuotient(s, v[3], k, BigDivSmall(BigShl(v[2], k), d))

\* v / m, for an integer m # 0 with |m| <= LimbBase
DDiv(v, m) ==
    IF v[1] = 0 THEN DZero
    ELSE DDivBy(v, v[1] * Sgn(m), Abs(m), 55 + Bits(Abs(m)))

(***************************************************************************)
(* Checkerboards and detectors.                                            *)
(***************************************************************************)
Rows(board) == board.rows

Cols(board) == board.cols

\* board(i, j)
Cell(board, i, j) == board.cell[<< i, j >>]

EmptyDetector == [boards |-> << >>, corners |-> << >>]

\* A board of the input: a rows x cols grid whose first `holes` cells (row
\* major) are undefined and whose other cells hold consecutive corner ids
\* from `base`; the corner of cell (i, j) is detected at (ox + j*pitch,
\* oy + i*pitch).
DescPoints(d) == d.rows * d.cols - d.holes

MakeBoard(d, base) ==
    [rows |-> d.rows, cols |-> d.cols,
     cell |-> [c \in (0 .. d.rows - 1) \X (0 .. d.cols - 1) |->
                 LET n == c[1] * d.cols + c[2]
                 IN  IF n < d.holes THEN UndefinedIndexT ELSE base + n - d.holes]]

RECURSIVE DescBase(_, _)
DescBase(descs, k) ==
    IF k = 1 THEN 0 ELSE DescBase(descs, k - 1) + DescPoints(descs[k - 1])

MakeCorners(descs) ==
    LET total == DescBase(descs, Len(descs) + 1)
        owner(id) == CHOOSE k \in 1 .. Len(descs) :
                        /\ DescBase(descs, k) <= id
                        /\ id < DescBase(descs, k + 1)
    IN  [id \in 0 .. total - 1 |->
            LET k == owner(id)
                d == descs[k]
                n == id - DescBase(descs, k) + d.holes
            IN  [center |-> << d.ox + (n % d.cols) * d.pitch,
                               d.oy + (n \div d.cols) * d.pitch >>]]

MakeDetector(descs) ==
    [boards  |-> [k \in 1 .. Len(descs) |-> MakeBoard(descs[k], DescBase(descs, k))],
     corners |-> MakeCorners(descs)]

(***************************************************************************)
(* The pinhole camera (camera::Pinhole), as far as the file uses it.       *)
(***************************************************************************)
IsPinhole_any(camera) == TRUE

\* std::dynamic_pointer_cast<camera::Pinhole>(camera) != nullptr
IsPinhole(camera) == camera.type = "pinhole"

getPrincipalPoint(p) == << p.w \div 2 + p.offset[1], p.h \div 2 + p.offset[2] >>

\* pixel -> normalised camera coordinates, a pair of fractions
ima2cam(p, pt) ==
    LET pp == getPrincipalPoint(p)
    IN  << << pt[1] - pp[1], p.scale[1] >>, << pt[2] - pp[2], p.scale[2] >> >>

\* the distortion object, when there is one, doubles the radius
removeDistortion(p, c) ==
    IF p.hasDistortion THEN << << 2 * c[1][1], c[1][2] >>, << 2 * c[2][1], c[2][2] >> >>
    ELSE c

\* c * m + n on the double c, the way the build computes it
DMulAdd(c, m, n, contract) ==
    IF contract THEN DFma(c, DInt(m), DInt(n)) ELSE DAdd(DMul(c, m), n)

\* scale * c + principal point, on the doubles c: a pair of doubles
cam2ima(p, c, contract) ==
    << DMulAdd(DDiv(DInt(c[1][1]), c[1][2]), p.scale[1], getPrincipalPoint(p)[1], contract),
       DMulAdd(DDiv(DInt(c[2][1]), c[2][2]), p.scale[2], getPrincipalPoint(p)[2], contract) >>

\* the doubles of the whole pixel coordinates of an image of 8192 x 8192
\* pixels at most, computed once
DIntTable == [k \in 0 .. 8192 |-> DInt(k)]

\* a pixel of the detector as a pair of doubles: DPoint reads what was
\* computed and computes what was not
DPoint(pt) ==
    << IF pt[1] \in DOMAIN DIntTable THEN DIntTable[pt[1]] ELSE DInt(pt[1]),
       IF pt[2] \in DOMAIN DIntTable THEN DIntTable[pt[2]] ELSE DInt(pt[2]) >>

get_ud_pixel(p, pt, contract) == cam2ima(p, removeDistortion(p, ima2cam(p, pt)), contract)

\* 1.0 / std::max(0.4, std::max(std::abs(campt.x()), std::abs(campt.y())))
FeatureScale(p, pt) ==
    LET campt == removeDistortion(p, ima2cam(p, pt))
        ax == << Abs(campt[1][1]), campt[1][2] >>
        ay == << Abs(campt[2][1]), campt[2][2] >>
        m  == IF ax[1] * ay[2] < ay[1] * ax[2] THEN ay ELSE ax
        s  == IF 5 * m[1] < 2 * m[2] THEN << 2, 5 >> ELSE m
    IN  << s[2], s[1] >>

(***************************************************************************)
(* Inputs.  The scene is the one aliceVision_main loaded; a detection set  *)
(* exists only for views of the scene.                                     *)
(***************************************************************************)
View(id, pose, intr) ==
    [viewId |-> id, poseId |-> pose, intrinsicId |-> intr,
     width |-> 64, height |-> 64]

Camera(type, scale, offset, dist) ==
    [type |-> type, scale |-> scale, offset |-> offset, hasDistortion |-> dist,
     ratioLocked |-> FALSE, K |-> "loaded", refined |-> 0, w |-> 64, h |-> 64]

OtherCamera == Camera("equidistant", << 10, 10 >>, << 0, 0 >>, FALSE)

LoadedPose == [board |-> "loaded", refined |-> 0, finite |-> TRUE]

LoadedLandmarks(v) ==
    [l \in {3, 100} |->
        [X |-> << 1, 1, 1 >>, descType |-> "SIFT",
         observations |-> (v :> [x |-> DPoint(<< 8, 8 >>), id_feat |-> 0, scale |-> << 1, 1 >>])]]

\* the nested boards of one image: 30 corners around the centre, 29 corners
\* (one cell undefined) next to the centre, 30 of 36 corners and 30 corners
\* at the same distance, 30 corners further out
NestedBoards ==
    {[rows |-> 5, cols |-> 6, holes |-> 0, ox |-> 24, oy |-> 24, pitch |-> 4],
     [rows |-> 5, cols |-> 6, holes |-> 1, ox |-> 28, oy |-> 28, pitch |-> 4],
     [rows |-> 6, cols |-> 6, holes |-> 6, ox |-> 40, oy |-> 4, pitch |-> 4],
     [rows |-> 5, cols |-> 6, holes |-> 0, ox |-> 40, oy |-> 40, pitch |-> 4],
     [rows |-> 5, cols |-> 6, holes |-> 0, ox |-> 0, oy |-> 44, pitch |-> 4]}

\* lists of at most MaxBoards different boards
BoardLists(S) ==
    {l \in UNION {[1 .. k -> S] : k \in 0 .. MaxBoards} :
        \A a, b \in DOMAIN l : a # b => l[a] # l[b]}

Scenario(simple, bai, vs, is, ps, ls) ==
    [simple |-> simple, boardsAllImages |-> bai, views |-> vs,
     intrinsics |-> is, poses |-> ps, landmarks |-> ls]

\* one image with nested boards, a pinhole camera: the only view of the
\* scene, or the first of two views
NestedSetups ==
    {[vid |-> 5, views |-> 5 :> View(5, 5, 1),
      camera |-> Camera("pinhole", << 10, 10 >>, << 0, 0 >>, FALSE)],
     [vid |-> 0, views |-> (0 :> View(0, 9, 1)) @@ (5 :> View(5, 5, 1)),
      camera |-> Camera("pinhole", << 10, 20 >>, << 4, 4 >>, TRUE)]}

NestedScenarios ==
    {Scenario(simple, su.vid :> MakeDetector(l), su.views,
              1 :> su.camera, 5 :> LoadedPose, LoadedLandmarks(5)) :
        simple \in BOOLEAN, su \in NestedSetups, l \in BoardLists(NestedBoards)}

\* one image whose camera has equal scales, an offset and a distortion or
\* none, with the board of 30 of 36 corners, alone or after the board around
\* the centre
SquareScenarios ==
    {Scenario(TRUE, 5 :> MakeDetector(l), 5 :> View(5, 5, 1),
              1 :> Camera("pinhole", << 25, 25 >>, << 4, 4 >>, dist),
              5 :> LoadedPose, LoadedLandmarks(5)) :
        dist \in BOOLEAN,
        l \in {<< [rows |-> 6, cols |-> 6, holes |-> 6, ox |-> 40, oy |-> 4, pitch |-> 4] >>,
               << [rows |-> 5, cols |-> 6, holes |-> 0, ox |-> 24, oy |-> 24, pitch |-> 4],
                  [rows |-> 6, cols |-> 6, holes |-> 6, ox |-> 40, oy |-> 4, pitch |-> 4] >>}}

\* one image of 8192 x 8192 pixels whose camera has equal scales, an offset
\* and a distortion or none, with a board of 30 of 36 corners near the top
LargeScenarios ==
    {Scenario(TRUE,
              5 :> MakeDetector(<< [rows |-> 6, cols |-> 6, holes |-> 6, ox |-> 4000,
                                    oy |-> 100, pitch |-> 100] >>),
              5 :> [View(5, 5, 1) EXCEPT !.width = 8192, !.height = 8192],
              1 :> [Camera("pinhole", << 3000, 3000 >>, << 4, 4 >>, dist)
                       EXCEPT !.w = 8192, !.h = 8192],
              5 :> LoadedPose, LoadedLandmarks(5)) :
        dist \in BOOLEAN}

OneBoard == << [rows |-> 5, cols |-> 6, holes |-> 0, ox |-> 24, oy |-> 24, pitch |-> 4] >>

\* the single-image procedure on inputs it refuses
RefusedScenarios ==
    {Scenario(simple, [v \in dets |-> MakeDetector(OneBoard)],
              (0 :> View(0, 9, 1)) @@ (5 :> View(5, 5, 1)),
              is, 5 :> LoadedPose, LoadedLandmarks(5)) :
        simple \in BOOLEAN, dets \in SUBSET {0, 5},
        is \in {1 :> OtherCamera, 2 :> Camera("pinhole", << 10, 10 >>, << 0, 0 >>, FALSE),
                1 :> Camera("pinhole", << 10, 10 >>, << 0, 0 >>, FALSE)}}

\* the boards of the several-views procedure: 12 corners, 14 of 16 corners
PlainBoards ==
    {[rows |-> 3, cols |-> 4, holes |-> 0, ox |-> 8, oy |-> 8, pitch |-> 8],
     [rows |-> 4, cols |-> 4, holes |-> 2, ox |-> 16, oy |-> 8, pitch |-> 8]}

PlainDetectors ==
    {MakeDetector(<< >>)} \cup {MakeDetector(<< d >>) : d \in PlainBoards}
    \cup {MakeDetector(<< [rows |-> 3, cols |-> 4, holes |-> 0, ox |-> 8, oy |-> 8, pitch |-> 8],
                          [rows |-> 4, cols |-> 4, holes |-> 2, ox |-> 16, oy |-> 8, pitch |-> 8] >>)}

BasicViewIds == {1, 2, 3}

BasicScenarios ==
    {Scenario(FALSE, bai,
              [v \in BasicViewIds |-> View(v, IF v = 2 THEN 12 ELSE v,
                                             IF v = 3 THEN third ELSE 10)],
              is, 5 :> LoadedPose, LoadedLandmarks(1)) :
        bai \in UNION {[d -> PlainDetectors] : d \in SUBSET BasicViewIds},
        third \in {10, 20},
        is \in {(10 :> Camera("pinhole", << 10, 10 >>, << 0, 0 >>, FALSE))
                   @@ (20 :> Camera("pinhole", << 10, 20 >>, << 4, 4 >>, TRUE)),
                (10 :> Camera("pinhole", << 10, 10 >>, << 0, 0 >>, FALSE))
                   @@ (20 :> OtherCamera)}}

\* the scenes and detection files aliceVision_main may be given
MainScenarios ==
    NestedScenarios \cup SquareScenarios \cup LargeScenarios \cup RefusedScenarios
        \cup {[sc EXCEPT !.simple = simple] : sc \in BasicScenarios, simple \in BOOLEAN}

(***************************************************************************)
(* The undistorted corners of the scenes.  get_ud_pixel is computed once   *)
(* for every pinhole and every corner of a scene of the simple pinhole;    *)
(* UdPixel reads what was computed and computes what was not.              *)
(***************************************************************************)
UdPixelTable ==
    [q \in UNION {{<< p, c.center, contract >> :
                      p \in {x \in Range(sc.intrinsics) : IsPinhole(x)},
                      c \in UNION {Range(d.corners) : d \in Range(sc.boardsAllImages)},
                      contract \in BOOLEAN} :
                  sc \in {x \in MainScenarios : x.simple}} |->
        get_ud_pixel(q[1], q[2], q[3])]

UdPixel(p, pt, contract) ==
    IF << p, pt, contract >> \in DOMAIN UdPixelTable THEN UdPixelTable[<< p, pt, contract >>]
    ELSE get_ud_pixel(p, pt, contract)

(***************************************************************************)
(* Poses.  A pose estimated from the points of a board is named by the     *)
(* position of that board in the sorted list; `refined` counts the bundle  *)
(* adjustments that moved it.                                              *)
(***************************************************************************)
DefaultPose == [board |-> "identity", refined |-> 0, finite |-> TRUE]

\* sfmData::CameraPose(geometry::Pose3(R, -R.transpose() * t)) from the model
\* ACRANSAC fitted to the points of boards[idx]
PoseOfBoard(idx) == [board |-> idx, refined |-> 0, finite |-> TRUE]

(***************************************************************************)
(* Reading the corner list.  Every double loop over the cells of a board   *)
(* tests the cell before it indexes the corners with it.                   *)
(***************************************************************************)
IsUndefined_never(cid) == FALSE

\* if (cid == UndefinedIndexT) { continue; }
IsUndefined(cid) == cid = UndefinedIndexT

\* the values with which a loop over the cells of the board indexes corners
IndexedCorners(board) ==
    {board.cell[c] : c \in {d \in DOMAIN board.cell : ~IsUndefined(board.cell[d])}}

\* corners[cid]; outside the vector the read is undefined: the step that
\* does it sets undefinedRead, and the value stands for whatever was read
CornerAt(corners, cid) ==
    IF cid \in DOMAIN corners THEN corners[cid] ELSE [center |-> << 0, 0 >>]

\* some board of the set made its loop index corners with UndefinedIndexT
ReadsUndefined(bs) == \E b \in bs : UndefinedIndexT \in IndexedCorners(b)

(***************************************************************************)
(* process_innerGrids: the sort of the boards.                             *)
(***************************************************************************)
\* 4 * |c.center - center|^2 with center = (0.5 * w, 0.5 * h)
Dist4(c, w, h) == (2 * c[1] - w) * (2 * c[1] - w) + (2 * c[2] - h) * (2 * c[2] - h)

\* the double loop of the comparator: minimum over the defined cells
MinDist(board, corners, w, h) ==
    LET dists == {Dist4(CornerAt(corners, cid).center, w, h) : cid \in IndexedCorners(board)}
    IN  IF dists = {} THEN DoubleMax
        ELSE CHOOSE d \in dists : \A e \in dists : d <= e

SortCompare_reversed(bfirst, bsecond, corners, w, h) ==
    MinDist(bfirst, corners, w, h) > MinDist(bsecond, corners, w, h)

\* the lambda passed to std::sort
SortCompare(bfirst, bsecond, corners, w, h) ==
    MinDist(bfirst, corners, w, h) < MinDist(bsecond, corners, w, h)

PermutationsOf(n) ==
    {p \in [1 .. n -> 1 .. n] : \A a, b \in 1 .. n : a # b => p[a] # p[b]}

\* std::sort is not stable: any permutation with no inversion may come out
StdSort(bs, corners, w, h) ==
    {[k \in 1 .. Len(bs) |-> bs[p[k]]] : p \in
        {q \in PermutationsOf(Len(bs)) :
            \A a, b \in 1 .. Len(bs) :
                a < b => ~SortCompare(bs[q[b]], bs[q[a]], corners, w, h)}}

(***************************************************************************)
(* process_innerGrids: one board.                                          *)
(***************************************************************************)
\* the counting loop
CountPoints(board) ==
    Cardinality({c \in DOMAIN board.cell : board.cell[c] # UndefinedIndexT})

SkipBoard_off(count_points) == FALSE

SkipBoard(count_points) == count_points < MinBoardPoints

PoseFailed_never(n_inliers) == FALSE

PoseFailed(n_inliers) == n_inliers < MinPoseInliers

NextSquareSize_afterTwo(valid, size) ==
    IF valid >= 1 THEN size * 2 ELSE size

\* if (idx_checkerboard_valid < 2) localSquareSize *= 2.0;
NextSquareSize(valid, size) ==
    IF valid < DoublingBoards THEN size * 2 ELSE size

SyntheticId_boardIndex(idx, valid) == idx

\* the key of the observations, the pose and the fake view of a board
SyntheticId(idx, valid) == valid

\* refpt of cell (i, j)
RefPoint(board, i, j, size) ==
    << (j - Cols(board) \div 2) * size, (i - Rows(board) \div 2) * size, 0 >>

\* the landmark and its single observation built for cell (i, j)
NewLandmark(board, corners, pinhole, i, j, size, key, pos, simple, contract) ==
    LET cid   == Cell(board, i, j)
        c     == CornerAt(corners, cid)
        curpt == UdPixel(pinhole, c.center, contract)
        nobs  == IF ~simple THEN DPoint(c.center) ELSE curpt
        obs   == [x |-> nobs, id_feat |-> pos,
                  scale |-> FeatureScale(pinhole, c.center)]
    IN  [X |-> RefPoint(board, i, j, size), descType |-> "SIFT",
         observations |-> (key :> obs)]

\* the second double loop, from cell number n (row major) on
RECURSIVE AddBoardLandmarks(_, _, _, _, _, _, _, _, _)
AddBoardLandmarks(lms, board, corners, pinhole, n, size, key, simple, contract) ==
    IF n = Rows(board) * Cols(board) THEN lms
    ELSE LET i == n \div Cols(board)
             j == n % Cols(board)
         IN  IF IsUndefined(Cell(board, i, j))
             THEN AddBoardLandmarks(lms, board, corners, pinhole, n + 1, size, key, simple,
                                    contract)
             ELSE LET pos == Cardinality(DOMAIN lms)
                  IN  AddBoardLandmarks(
                          Put(lms, pos, NewLandmark(board, corners, pinhole, i, j,
                                                    size, key, pos, simple, contract)),
                          board, corners, pinhole, n + 1, size, key, simple, contract)

\* inlier counts ACRANSAC may report for n points
InlierChoices(n, threshold) == {0, threshold - 1, threshold, n} \cap (0 .. n)

(***************************************************************************)
(* The bundle adjustment (external): on success every pose and every       *)
(* intrinsic has been moved, on failure the scene is as it was.            *)
(***************************************************************************)
AdjustedPoses(ps) == [k \in DOMAIN ps |-> [ps[k] EXCEPT !.refined = @ + 1]]

AdjustedIntrinsic(p) == [p EXCEPT !.refined = @ + 1]

AdjustedIntrinsics(is) == [k \in DOMAIN is |-> AdjustedIntrinsic(is[k])]

(***************************************************************************)
(* Returning from a procedure.                                             *)
(***************************************************************************)
Return(value, message) ==
    /\ result' = value
    /\ logError' = message
    /\ pc' = "returned"

\* bool(EXIT_FAILURE): a non-zero int converts to true
IntToBool(n) == n # 0

(***************************************************************************)
(* process_innerGrids, up to the loop over the boards.                     *)
(***************************************************************************)
WrongDetectionCount_lt(n) == n < 1

WrongDetectionCount(n) == n # 1

FirstKey(m) == CHOOSE k \in DOMAIN m : \A l \in DOMAIN m : k <= l

InnerStart ==
    /\ pc = "start"
    /\ entry = "aliceVision_main"
    /\ useBetaFeatureInnerGrids
    /\ IF WrongDetectionCount(Cardinality(DOMAIN boardsAllImages))
       THEN /\ Return(FALSE, "Only works with one view")
            /\ UNCHANGED << sfmVars, innerVars, undefinedRead >>
       ELSE LET vid      == FirstKey(boardsAllImages)
                v        == views[vid]
                detector == boardsAllImages[vid]
            IN  /\ landmarks' = EmptyMap
                /\ poses' = EmptyMap
                /\ viewId' = vid
                /\ view' = v
                /\ UNCHANGED << views, intrinsics >>
                /\ IF v.intrinsicId \notin DOMAIN intrinsics
                   THEN /\ Return(FALSE, "Intrinsic not found")
                        /\ UNCHANGED << boards, idx_checkerboard, idx_checkerboard_valid,
                                        localSquareSize, vec_inliers, processed,
                                        undefinedRead >>
                   ELSE IF ~IsPinhole(intrinsics[v.intrinsicId])
                   THEN /\ Return(FALSE, "Intrinsic is not a pinhole")
                        /\ UNCHANGED << boards, idx_checkerboard, idx_checkerboard_valid,
                                        localSquareSize, vec_inliers, processed,
                                        undefinedRead >>
                   ELSE IF Len(detector.boards) < 1
                   THEN /\ Return(FALSE, "First view has no checkerboards")
                        /\ UNCHANGED << boards, idx_checkerboard, idx_checkerboard_valid,
                                        localSquareSize, vec_inliers, processed,
                                        undefinedRead >>
                   ELSE /\ boards' \in StdSort(detector.boards, detector.corners,
                                               v.width, v.height)
                        /\ localSquareSize' = InitialSquareSize
                        /\ idx_checkerboard_valid' = 0
                        /\ idx_checkerboard' = 0
                        /\ pc' = "loop"
                        /\ undefinedRead' =
                              (undefinedRead
                                  \/ (Len(detector.boards) >= 2
                                         /\ ReadsUndefined(Range(detector.boards))))
                        /\ UNCHANGED << result, logError, vec_inliers, processed >>
    /\ UNCHANGED << inputVars, boardsAllImages, baCalls, baFailed, exitCode, saved,
                    basicVars >>

(***************************************************************************)
(* process_innerGrids: one iteration of the loop over the boards.          *)
(***************************************************************************)
BoardRecord(count, outcome) ==
    [idx |-> idx_checkerboard, count |-> count, outcome |-> outcome,
     valid |-> idx_checkerboard_valid, pos |-> Cardinality(DOMAIN landmarks)]

BoardStep ==
    /\ pc = "loop"
    /\ idx_checkerboard < Len(boards)
    /\ LET board   == boards[idx_checkerboard + 1]
           corners == boardsAllImages[viewId].corners
           pinhole == intrinsics[view.intrinsicId]
           count   == CountPoints(board)
           key     == SyntheticId(idx_checkerboard, idx_checkerboard_valid)
       IN  IF SkipBoard(count)
           THEN /\ idx_checkerboard' = idx_checkerboard + 1
                /\ processed' = Append(processed, BoardRecord(count, "skipped"))
                /\ UNCHANGED << sfmVars, pc, result, logError, idx_checkerboard_valid,
                                localSquareSize, vec_inliers, undefinedRead >>
           ELSE /\ landmarks' = AddBoardLandmarks(landmarks, board, corners, pinhole, 0,
                                                  localSquareSize, key, useSimplePinhole,
                                                  fpContract)
                /\ \E n \in InlierChoices(count, MinPoseInliers) :
                      /\ vec_inliers' = n
                      /\ IF PoseFailed(n)
                         THEN /\ Return(FALSE, "Impossible to find pose")
                              /\ processed' = Append(processed, BoardRecord(count, "failed"))
                              /\ UNCHANGED << views, poses, idx_checkerboard,
                                              idx_checkerboard_valid, localSquareSize >>
                         ELSE /\ poses' = Put(poses, key, PoseOfBoard(idx_checkerboard))
                              /\ views' = Put(views, key,
                                              [view EXCEPT !.viewId = key, !.poseId = key])
                              /\ localSquareSize' =
                                    NextSquareSize(idx_checkerboard_valid, localSquareSize)
                              /\ idx_checkerboard_valid' = idx_checkerboard_valid + 1
                              /\ idx_checkerboard' = idx_checkerboard + 1
                              /\ processed' = Append(processed, BoardRecord(count, "accepted"))
                              /\ UNCHANGED << pc, result, logError >>
                /\ undefinedRead' = (undefinedRead \/ ReadsUndefined({board}))
                /\ UNCHANGED intrinsics
    /\ UNCHANGED << inputVars, boardsAllImages, baCalls, baFailed, exitCode, saved, viewId,
                    view, boards, basicVars >>

(***************************************************************************)
(* process_innerGrids: after the loop.                                     *)
(***************************************************************************)
\* pinhole->setOffset(Vec2(0,0)); pinhole->setDistortionObject(nullptr)
SimpleIntrinsic(p) == [p EXCEPT !.offset = << 0, 0 >>, !.hasDistortion = FALSE]

\* the loop is left; the simple pinhole loses its offset and its distortion
LoopExit ==
    /\ pc = "loop"
    /\ idx_checkerboard = Len(boards)
    /\ intrinsics' =
          IF useSimplePinhole
          THEN [intrinsics EXCEPT ![view.intrinsicId] = SimpleIntrinsic(@)]
          ELSE intrinsics
    /\ vec_inliers' = 0
    /\ pc' = "adjust1"
    /\ UNCHANGED << inputVars, boardsAllImages, views, poses, landmarks, result, logError,
                    baCalls, baFailed, mainVars, viewId, view, boards, idx_checkerboard,
                    idx_checkerboard_valid, localSquareSize, processed, basicVars >>

AdjustFailed_ignored(ok) == FALSE

\* if (!ba.adjust(sfmData, ...)) { ...; return false; }
AdjustFailed(ok) == ~ok

AfterFirstAdjust_finalize(simple) == "finalize"

\* if (useSimplePinhole) { aspect step, second ba.adjust }, then the finalization
AfterFirstAdjust(simple) == IF simple THEN "aspect" ELSE "finalize"

\* the first ba.adjust
Adjust1 ==
    /\ pc = "adjust1"
    /\ baCalls' = baCalls + 1
    /\ \E ok \in BOOLEAN :
          /\ baFailed' = (baFailed \/ ~ok)
          /\ IF AdjustFailed(ok)
             THEN /\ Return(FALSE, "Failed to calibrate")
                  /\ UNCHANGED sfmVars
             ELSE /\ poses' = AdjustedPoses(poses)
                  /\ intrinsics' = AdjustedIntrinsics(intrinsics)
                  /\ pc' = AfterFirstAdjust(useSimplePinhole)
                  /\ UNCHANGED << views, landmarks, result, logError >>
    /\ UNCHANGED << inputVars, boardsAllImages, mainVars, innerVars, basicVars >>

AspectY_noDivide(pinhole, y, contract) ==
    DMulAdd(DAdd(y, -getPrincipalPoint(pinhole)[2]), pinhole.scale[1],
            getPrincipalPoint(pinhole)[2], contract)

\* double y = (o.second.x[1] - pp[1]) / scale(1);
\* double ny = y * scale(0) + pp[1]; on the double o.second.x[1]: the
\* difference and the quotient are rounded, the product and the sum are
\* rounded one after the other or together
AspectY(pinhole, y, contract) ==
    DMulAdd(DDiv(DAdd(y, -getPrincipalPoint(pinhole)[2]), pinhole.scale[2]),
            pinhole.scale[1], getPrincipalPoint(pinhole)[2], contract)

\* AspectY is computed once for every undistorted corner of the scenes, with
\* the pinhole as the loop and the first ba.adjust leave it; AspectYOf reads
\* what was computed and computes what was not
AspectTable ==
    [q \in {<< AdjustedIntrinsic(SimpleIntrinsic(u[1])), UdPixelTable[u][2], u[3] >> :
               u \in DOMAIN UdPixelTable} |->
        AspectY(q[1], q[2], q[3])]

AspectYOf(pinhole, y, contract) ==
    IF << pinhole, y, contract >> \in DOMAIN AspectTable
    THEN AspectTable[<< pinhole, y, contract >>]
    ELSE AspectY(pinhole, y, contract)

AspectObservations(lms, pinhole, contract) ==
    [l \in DOMAIN lms |->
        [lms[l] EXCEPT !.observations =
            [o \in DOMAIN @ |->
                [@[o] EXCEPT !.x = << @[1], AspectYOf(pinhole, @[2], contract) >>]]]]

\* setRatioLocked(true); scale(1) = scale(0); setScale(scale)
AspectIntrinsic(pinhole) ==
    [pinhole EXCEPT !.ratioLocked = TRUE, !.scale = << @[1], @[1] >>]

AspectCorrect ==
    /\ pc = "aspect"
    /\ landmarks' = AspectObservations(landmarks, intrinsics[view.intrinsicId], fpContract)
    /\ intrinsics' = [intrinsics EXCEPT ![view.intrinsicId] = AspectIntrinsic(@)]
    /\ pc' = "adjust2"
    /\ UNCHANGED << inputVars, boardsAllImages, views, poses, result, logError, baCalls, baFailed,
                    mainVars, innerVars, basicVars >>

\* the second ba.adjust
Adjust2 ==
    /\ pc = "adjust2"
    /\ baCalls' = baCalls + 1
    /\ \E ok \in BOOLEAN :
          /\ baFailed' = (baFailed \/ ~ok)
          /\ IF AdjustFailed(ok)
             THEN /\ Return(FALSE, "Failed to calibrate")
                  /\ UNCHANGED sfmVars
             ELSE /\ poses' = AdjustedPoses(poses)
                  /\ intrinsics' = AdjustedIntrinsics(intrinsics)
                  /\ pc' = "finalize"
                  /\ UNCHANGED << views, landmarks, result, logError >>
    /\ UNCHANGED << inputVars, boardsAllImages, mainVars, innerVars, basicVars >>

\* ps[0]: operator[] inserts a default pose when there is none
PoseAt(ps, k) == IF k \in DOMAIN ps THEN ps[k] ELSE DefaultPose

FinalViews_keepAll(vs, vid, v) == Put(vs, vid, v)

\* vs.clear(); vs[viewId] = view;
FinalViews(vs, vid, v) == vid :> v

FinalPoses_last(ps, vid) == vid :> PoseAt(ps, Cardinality(DOMAIN ps) - 1)

\* cp = ps[0]; ps.clear(); ps[viewId] = cp;
FinalPoses(ps, vid) == vid :> PoseAt(ps, 0)

Finalize ==
    /\ pc = "finalize"
    /\ views' = FinalViews(views, viewId, view)
    /\ poses' = FinalPoses(poses, viewId)
    /\ result' = TRUE
    /\ pc' = "returned"
    /\ UNCHANGED << inputVars, boardsAllImages, intrinsics, landmarks, logError, baCalls, baFailed,
                    mainVars, innerVars, basicVars >>

(***************************************************************************)
(* aliceVision_main, after the procedure returned.                         *)
(***************************************************************************)
\* the paths given with --input and --outSfMData
sfmInputDataFilepath == "input.sfm"

sfmOutputDataFilepath == "output.sfm"

LoadFailedMessage ==
    "The input SfMData file '" \o sfmInputDataFilepath \o "' cannot be read."

SaveFailedMessage ==
    "The output SfMData file '" \o sfmOutputDataFilepath \o "' cannot be read."

MainFinish ==
    /\ pc = "returned"
    /\ entry = "aliceVision_main"
    /\ pc' = "exit"
    /\ IF ~result
       THEN /\ exitCode' = EXIT_FAILURE
            /\ UNCHANGED << saved, logError >>
       ELSE \E written \in BOOLEAN :
               /\ saved' = written
               /\ exitCode' = IF written THEN EXIT_SUCCESS ELSE EXIT_FAILURE
               /\ logError' = IF written THEN logError ELSE SaveFailedMessage
    /\ UNCHANGED << inputVars, boardsAllImages, sfmVars, result, baCalls, baFailed,
                    undefinedRead, innerVars, basicVars >>

(***************************************************************************)
(* process_basic.                                                          *)
(***************************************************************************)
TooFewViews_off(n) == FALSE

TooFewViews(n) == n < 2

BasicStart ==
    /\ pc = "start"
    /\ (entry = "process_basic" \/ ~useBetaFeatureInnerGrids)
    /\ IF TooFewViews(Cardinality(DOMAIN boardsAllImages))
       THEN /\ Return(IntToBool(EXIT_FAILURE), "At least 2 views are needed")
            /\ UNCHANGED basicVars
       ELSE /\ first' = TRUE
            /\ global_max_checkerboard_w' = 0
            /\ global_max_checkerboard_h' = 0
            /\ intrinsicPos' = 0
            /\ pc' = "basic_loop"
            /\ UNCHANGED << result, logError, homographies, solved >>
    /\ UNCHANGED << inputVars, boardsAllImages, sfmVars, baCalls, baFailed, mainVars, innerVars >>

\* boardsAllImages[pv.first]: operator[] inserts an empty detector
DetectorOf(bai, v) == IF v \in DOMAIN bai THEN bai[v] ELSE EmptyDetector

\* the views of the intrinsic that hold exactly one board
OneBoardViews(id) ==
    {v \in DOMAIN views :
        /\ views[v].intrinsicId = id
        /\ Len(DetectorOf(boardsAllImages, v).boards) = 1}

BoardOf(v) == DetectorOf(boardsAllImages, v).boards[1]

MaxOver(S) == IF S = {} THEN 0 ELSE CHOOSE m \in S : \A x \in S : x <= m

HomographyRejected(n_inliers) == n_inliers < MinHomographyInliers

\* double lambda = B(2,2) - (B(0,2)*B(0,2) + v0 * (B(0,1)*B(0,2) - B(0,0)*B(1,2)))
\* / B(0,0), with v0 = num / den, on b = (B00, B01, B11, B02, B12, B22), for
\* B00 # 0 and den # 0: the products and sums of the integers are exact, the
\* two divisions, the product v0 * num and the two sums after it are
\* rounded.  A build that contracts fuses B02 * B02 with the sum, and that
\* product is exact: lambda is the same in both builds
ZhangLambda(b) ==
    LET B00 == b[1]  B01 == b[2]  B11 == b[3]  B02 == b[4]  B12 == b[5]  B22 == b[6]
        den == B00 * B11 - B01 * B01
        num == B01 * B02 - B00 * B12
        v0  == DDiv(DInt(num), den)
    IN  DAdd(DNeg(DDiv(DAdd(DMul(v0, num), B02 * B02), B00)), B22)

\* Zhang's closed form: v0 = num/den, alpha = sqrt(lambda / B00),
\* beta = sqrt(lambda * B00 / den), gamma = -B01 * alpha^2 * beta / lambda,
\* u0 = gamma * v0 / beta - B02 * alpha^2 / lambda.  The matrix is finite when
\* no division is by zero and no square root is of a negative number: B00 and
\* den are not zero, the double lambda is not zero and has the sign of B00,
\* and den is positive
ZhangFinite(b) ==
    LET B00 == b[1]  B01 == b[2]  B11 == b[3]
        den == B00 * B11 - B01 * B01
    IN  /\ B00 # 0
        /\ den > 0
        /\ DSign(ZhangLambda(b)) * B00 > 0

\* the last column of the V factor of the SVD of the stacked constraints: with
\* no homography the matrix has no row and the column is the last unit
\* vector; otherwise it is whatever the homographies give.  The last two
\* have B22 - (B02^2 + v0 * num) / B00 = 0 in exact numbers: the first of
\* them gets lambda = 2^(-53) from the rounding of v0, the second lambda = 0
NullVectors(nH) ==
    IF nH = 0 THEN {<< 0, 0, 0, 0, 0, 1 >>}
    ELSE {<< 1, 0, 1, 0, 0, 100 >>, << 1, 0, -1, 0, 0, 100 >>,
          << 1, 0, 2401, 0, -49, 1 >>, << 1, 0, 1, 3, 4, 25 >>}

\* inlier counts ACRANSAC may report for the views of `cand`
InlierAssignments(cand) ==
    {f \in [cand -> UNION {InlierChoices(CountPoints(BoardOf(v)), MinHomographyInliers) :
                            v \in cand}] :
        \A v \in cand :
            f[v] \in InlierChoices(CountPoints(BoardOf(v)), MinHomographyInliers)}

PoseOfHomography(v, finite) == [board |-> v, refined |-> 0, finite |-> finite]

\* the shared grid of landmarks, one per cell of the largest board
RECURSIVE GridLandmarks(_, _, _, _)
GridLandmarks(lms, n, rows, cols) ==
    IF n = rows * cols THEN lms
    ELSE GridLandmarks(
            Put(lms, n, [X |-> << n % cols, n \div cols, 0 >>, descType |-> "SIFT",
                         observations |-> EmptyMap]),
            n + 1, rows, cols)

\* indices(i, j)
GridIndex(i, j, cols) == i * cols + j

\* "Get residuals": the observations of one view
RECURSIVE AddViewObservations(_, _, _, _)
AddViewObservations(lms, v, n, cols) ==
    LET b == BoardOf(v)
    IN  IF n = Rows(b) * Cols(b) THEN lms
        ELSE LET i   == n \div Cols(b)
                 j   == n % Cols(b)
                 idl == GridIndex(i, j, cols)
                 cid == Cell(b, i, j)
             IN  IF IsUndefined(cid)
                 THEN AddViewObservations(lms, v, n + 1, cols)
                 ELSE LET obs == [x |-> DPoint(CornerAt(DetectorOf(boardsAllImages, v).corners,
                                                        cid).center),
                                  id_feat |-> idl, scale |-> << 1, 1 >>]
                          old == IF idl \in DOMAIN lms THEN lms[idl]
                                 ELSE [X |-> << 0, 0, 0 >>, descType |-> "UNINITIALIZED",
                                       observations |-> EmptyMap]
                      IN  AddViewObservations(
                              Put(lms, idl, [old EXCEPT !.observations = Put(@, v, obs)]),
                              v, n + 1, cols)

RECURSIVE AddAllObservations(_, _, _)
AddAllObservations(lms, vseq, cols) ==
    IF vseq = << >> THEN lms
    ELSE AddAllObservations(AddViewObservations(lms, Head(vseq), 0, cols), Tail(vseq), cols)

RECURSIVE PutPoses(_, _, _)
PutPoses(ps, vseq, finite) ==
    IF vseq = << >> THEN ps
    ELSE PutPoses(Put(ps, Head(vseq), PoseOfHomography(Head(vseq), finite)), Tail(vseq), finite)

\* ALICEVISION_LOG_ERROR("The view " << pv.first << " has either 0 or more than 1
\* checkerboard found."); the views are visited by increasing id, the message
\* of the last such view is the one that stays
NotOneBoardMessage(v) ==
    "The view " \o ToString(v) \o " has either 0 or more than 1 checkerboard found."

InconsistentSize_never(isFirst, gh, gw, h, w) == FALSE

\* else { if (global_max_checkerboard_h != max_checkerboard_h || ...) return false; }
InconsistentSize(isFirst, gh, gw, h, w) == ~isFirst /\ (gh # h \/ gw # w)

\* one iteration of the loop over the intrinsics, up to the call of ba.adjust
BasicIntrinsic ==
    /\ pc = "basic_loop"
    /\ intrinsicPos < Cardinality(DOMAIN intrinsics)
    /\ LET id   == SetToSortedSeq(DOMAIN intrinsics)[intrinsicPos + 1]
           mine == {v \in DOMAIN views : views[v].intrinsicId = id}
           cand == OneBoardViews(id)
           max_checkerboard_w == MaxOver({Cols(BoardOf(v)) : v \in cand})
           max_checkerboard_h == MaxOver({Rows(BoardOf(v)) : v \in cand})
       IN  IF ~IsPinhole(intrinsics[id])
           THEN /\ Return(FALSE, "Only work for pinhole cameras")
                /\ UNCHANGED << boardsAllImages, sfmVars, first, global_max_checkerboard_w,
                                global_max_checkerboard_h, homographies, solved,
                                undefinedRead >>
           ELSE \E inl \in InlierAssignments(cand) :
                \E n \in NullVectors(Cardinality({v \in cand : ~HomographyRejected(inl[v])})) :
                  /\ LET H      == {v \in cand : ~HomographyRejected(inl[v])}
                         finite == ZhangFinite(n)
                         grid   == IF first
                                   THEN GridLandmarks(landmarks, 0, max_checkerboard_h,
                                                      max_checkerboard_w)
                                   ELSE landmarks
                         cols   == IF first THEN max_checkerboard_w
                                   ELSE global_max_checkerboard_w
                         rec    == [intrinsic |-> id, candidates |-> cand, accepted |-> H,
                                    w |-> max_checkerboard_w, h |-> max_checkerboard_h,
                                    finite |-> finite, wasFirst |-> first]
                     IN  /\ boardsAllImages' =
                               [v \in (DOMAIN boardsAllImages) \cup mine |->
                                   DetectorOf(boardsAllImages, v)]
                         /\ intrinsics' = [intrinsics EXCEPT ![id].K =
                                              IF finite THEN "zhang" ELSE "nonfinite"]
                         /\ homographies' = H
                         /\ solved' = Append(solved, rec)
                         /\ undefinedRead' =
                               (undefinedRead \/ ReadsUndefined({BoardOf(v) : v \in cand}))
                         /\ UNCHANGED views
                         /\ IF InconsistentSize(first, global_max_checkerboard_h,
                                              global_max_checkerboard_w,
                                              max_checkerboard_h, max_checkerboard_w)
                            THEN /\ Return(FALSE, "Inconsistent checkerboard size")
                                 /\ UNCHANGED << poses, landmarks, first,
                                                 global_max_checkerboard_w,
                                                 global_max_checkerboard_h >>
                            ELSE /\ first' = FALSE
                                 /\ global_max_checkerboard_w' = cols
                                 /\ global_max_checkerboard_h' =
                                       IF first THEN max_checkerboard_h
                                       ELSE global_max_checkerboard_h
                                 /\ poses' = PutPoses(poses, SetToSortedSeq(H), finite)
                                 /\ landmarks' =
                                       AddAllObservations(grid, SetToSortedSeq(H), cols)
                                 /\ pc' = "basic_adjust"
                                 /\ logError' = IF mine = cand THEN logError
                                                ELSE NotOneBoardMessage(MaxOver(mine \ cand))
                                 /\ UNCHANGED result
    /\ UNCHANGED << inputVars, baCalls, baFailed, exitCode, saved, innerVars,
                    intrinsicPos >>

\* ba.adjust at the end of the iteration
BasicAdjust ==
    /\ pc = "basic_adjust"
    /\ baCalls' = baCalls + 1
    /\ \E ok \in BOOLEAN :
          /\ baFailed' = (baFailed \/ ~ok)
          /\ IF AdjustFailed(ok)
             THEN /\ Return(FALSE, "Failed to calibrate")
                  /\ UNCHANGED << sfmVars, intrinsicPos >>
             ELSE /\ poses' = AdjustedPoses(poses)
                  /\ intrinsics' = AdjustedIntrinsics(intrinsics)
                  /\ intrinsicPos' = intrinsicPos + 1
                  /\ pc' = "basic_loop"
                  /\ UNCHANGED << views, landmarks, result, logError >>
    /\ UNCHANGED << inputVars, boardsAllImages, mainVars, innerVars, first,
                    global_max_checkerboard_w, global_max_checkerboard_h, homographies,
                    solved >>

\* the loop over the intrinsics is over
BasicDone ==
    /\ pc = "basic_loop"
    /\ intrinsicPos = Cardinality(DOMAIN intrinsics)
    /\ result' = TRUE
    /\ pc' = "returned"
    /\ UNCHANGED << inputVars, boardsAllImages, sfmVars, logError, baCalls, baFailed, mainVars,
                    innerVars, basicVars >>

(***************************************************************************)
(* The programs that are not running.                                      *)
(***************************************************************************)
\* no Histogram exists
HistogramIdle ==
    /\ Start = 0
    /\ End = 0
    /\ nBins_by_interval = << 0, 1 >>
    /\ nBins = 0
    /\ freq = << >>
    /\ overflow = 0
    /\ underflow = 0
    /\ adds = 0
    /\ lastX = 0
    /\ constructed = FALSE
    /\ histFault = FALSE

\* a ReconstructedPair that was default-constructed: its members were never set
DefaultReconstructedPair == [reference |-> -1, next |-> -1, pinhole |-> FALSE,
                             tracks |-> << >>]

\* the bootstrapping is not running
BootstrapIdle ==
    /\ reconstructedPairs = << >>
    /\ pairPos = 0
    /\ bestScore = 0
    /\ bestPair = DefaultReconstructedPair
    /\ bestUsedTracks = << >>
    /\ bootPc = "idle"
    /\ builtFrom = << >>
    /\ bootExit = "running"

\* no calibration is running: main has not been started
CalibrationIdle ==
    /\ entry = "none"
    /\ useBetaFeatureInnerGrids = TRUE
    /\ useSimplePinhole = FALSE
    /\ fpContract = FALSE
    /\ boardsAllImages = EmptyMap
    /\ views = EmptyMap
    /\ intrinsics = EmptyMap
    /\ poses = EmptyMap
    /\ landmarks = EmptyMap
    /\ pc = "idle"
    /\ result = FALSE
    /\ logError = ""
    /\ exitCode = EXIT_SUCCESS
    /\ saved = FALSE
    /\ baCalls = 0
    /\ baFailed = FALSE
    /\ undefinedRead = FALSE
    /\ viewId = 0
    /\ view = View(0, 0, 0)
    /\ boards = << >>
    /\ idx_checkerboard = 0
    /\ idx_checkerboard_valid = 0
    /\ localSquareSize = InitialSquareSize
    /\ vec_inliers = 0
    /\ processed = << >>
    /\ intrinsicPos = 0
    /\ first = TRUE
    /\ global_max_checkerboard_w = 0
    /\ global_max_checkerboard_h = 0
    /\ homographies = {}
    /\ solved = << >>
    /\ loaded = [views |-> EmptyMap, intrinsics |-> EmptyMap, poses |-> EmptyMap,
                 landmarks |-> EmptyMap]

calibrationVars ==
    << entry, useBetaFeatureInnerGrids, useSimplePinhole, fpContract, boardsAllImages, sfmVars,
       pc, result, logError, baCalls, baFailed, mainVars, innerVars, basicVars, loaded >>

NoScene == [views |-> EmptyMap, intrinsics |-> EmptyMap, poses |-> EmptyMap,
            landmarks |-> EmptyMap]

\* the locals of the two procedures, before they run
LocalsInit ==
    /\ result = FALSE
    /\ logError = ""
    /\ exitCode = EXIT_SUCCESS
    /\ saved = FALSE
    /\ baCalls = 0
    /\ baFailed = FALSE
    /\ undefinedRead = FALSE
    /\ viewId = 0
    /\ view = View(0, 0, 0)
    /\ boards = << >>
    /\ idx_checkerboard = 0
    /\ idx_checkerboard_valid = 0
    /\ localSquareSize = InitialSquareSize
    /\ vec_inliers = 0
    /\ processed = << >>
    /\ intrinsicPos = 0
    /\ first = TRUE
    /\ global_max_checkerboard_w = 0
    /\ global_max_checkerboard_h = 0
    /\ homographies = {}
    /\ solved = << >>

\* aliceVision_main is entered: nothing is parsed, nothing is loaded
MainInit ==
    /\ entry = "aliceVision_main"
    /\ useBetaFeatureInnerGrids = TRUE
    /\ useSimplePinhole = FALSE
    /\ fpContract \in BOOLEAN
    /\ boardsAllImages = EmptyMap
    /\ views = EmptyMap
    /\ intrinsics = EmptyMap
    /\ poses = EmptyMap
    /\ landmarks = EmptyMap
    /\ pc = "main"
    /\ loaded = NoScene
    /\ LocalsInit

\* process_basic(sfmData, boardsAllImages, squareSize) is entered by a caller
\* of its own: aliceVision_main, whose useBetaFeatureInnerGrids is true and
\* has no option, never calls it.  The two builds compute the same in
\* process_basic (ZhangLambda), the one that does not contract stands for both
BasicInit ==
    \E sc \in BasicScenarios :
        /\ entry = "process_basic"
        /\ useBetaFeatureInnerGrids = TRUE
        /\ useSimplePinhole = FALSE
        /\ fpContract = FALSE
        /\ boardsAllImages = sc.boardsAllImages
        /\ views = sc.views
        /\ intrinsics = sc.intrinsics
        /\ poses = sc.poses
        /\ landmarks = sc.landmarks
        /\ pc = "start"
        /\ loaded = [views |-> sc.views, intrinsics |-> sc.intrinsics,
                     poses |-> sc.poses, landmarks |-> sc.landmarks]
        /\ LocalsInit

Init ==
    /\ MainInit \/ BasicInit
    /\ HistogramIdle
    /\ BootstrapIdle

\* aliceVision_main up to the call of the procedure: the command line, the
\* scene, the detection files.  --help or no argument: the usage, success;
\* a bad or missing option: failure; a scene that cannot be loaded: failure.
\* Only with the simple pinhole is a product followed by a sum (cam2ima, the
\* aspect step): without it the build that contracts computes what the other
\* build computes.  It is given the scenes of the simple pinhole whose
\* cameras have equal scales, those whose observations the aspect step is to
\* leave alone
MainStart ==
    /\ pc = "main"
    /\ entry = "aliceVision_main"
    /\ \/ /\ pc' = "exit_help"
          /\ exitCode' = EXIT_SUCCESS
          /\ UNCHANGED << useSimplePinhole, boardsAllImages, sfmVars, logError, loaded >>
       \/ /\ pc' = "exit_option_error"
          /\ exitCode' = EXIT_FAILURE
          /\ UNCHANGED << useSimplePinhole, boardsAllImages, sfmVars, logError, loaded >>
       \/ /\ pc' = "exit_load_failed"
          /\ exitCode' = EXIT_FAILURE
          /\ useSimplePinhole' \in BOOLEAN
          /\ logError' = LoadFailedMessage
          /\ UNCHANGED << boardsAllImages, sfmVars, loaded >>
       \/ \E sc \in {x \in MainScenarios :
                       fpContract => /\ x.simple
                                     /\ \A i \in DOMAIN x.intrinsics :
                                           x.intrinsics[i].scale[1] = x.intrinsics[i].scale[2]} :
             /\ pc' = "start"
             /\ useSimplePinhole' = sc.simple
             /\ boardsAllImages' = sc.boardsAllImages
             /\ views' = sc.views
             /\ intrinsics' = sc.intrinsics
             /\ poses' = sc.poses
             /\ landmarks' = sc.landmarks
             /\ loaded' = [views |-> sc.views, intrinsics |-> sc.intrinsics,
                           poses |-> sc.poses, landmarks |-> sc.landmarks]
             /\ UNCHANGED << exitCode, logError >>
    /\ UNCHANGED << entry, useBetaFeatureInnerGrids, fpContract, histVars, bootVars, result,
                    saved,
                    baCalls, baFailed, undefinedRead, innerVars, basicVars >>

Next ==
    \/ MainStart
    \/ InnerStart
    \/ BoardStep
    \/ LoopExit
    \/ Adjust1
    \/ AspectCorrect
    \/ Adjust2
    \/ Finalize
    \/ BasicStart
    \/ BasicIntrinsic
    \/ BasicAdjust
    \/ BasicDone
    \/ MainFinish

Spec == Init /\ [][Next]_vars

(***************************************************************************)
(* Histogram<T> (src/unnamed/part_000), T = double.  A value is an integer *)
(* here; Start, End and the arguments of Add are such values and           *)
(* nBins_by_interval, a quotient of two of them kept in a double, is the   *)
(* pair << numerator, denominator >>: a zero denominator with a positive   *)
(* numerator is the infinity the division gives when End = Start.          *)
(***************************************************************************)
MaxBins == 3
MaxAdds == 4
MaxValue == 5

HistogramValues == (-1) .. MaxValue

\* the double product k * (n/d) falls below the integer k*n/d: the quotient
\* n/d, in lowest terms, was rounded down to 53 bits by rho/d of its last
\* bit, and k times that error is more than half the spacing of the
\* doubles below the product
ProductFallsShort(k, n, d) ==
    LET u   == FloorLog2(n, d)
        rho == ShiftMod(n, 52 - u, d)
        q   == (k * n) \div d
        t   == IF IsPowerOf2(q) THEN FloorLog2(q, 1) - 1 ELSE FloorLog2(q, 1)
        m   == Min(u + 1, t)
    IN  /\ ~IsPowerOf2(d)
        /\ 2 * rho < d
        /\ k * rho * Power2(u + 1 - m) > d * Power2(t - m)

\* static_cast<size_t>((x - Start) * nBins_by_interval), for Start <= x and a
\* finite positive nBins_by_interval: the product of two doubles, truncated
BinIndex(x, start, perUnit) ==
    LET k == x - start
        g == Gcd(perUnit[1], perUnit[2])
        q == (k * perUnit[1]) \div perUnit[2]
    IN  IF k = 0 \/ (k * perUnit[1]) % perUnit[2] # 0 THEN q
        ELSE IF ProductFallsShort(k, perUnit[1] \div g, perUnit[2] \div g) THEN q - 1
        ELSE q

\* std::min(i, nBins - 1): the clamp for the particular case x == End
ClampBin(i, n) == Min(i, n - 1)

\* the bins ++freq[std::min(i, nBins - 1)] may count x in, for nBins >= 1.
\* With End = Start the product is 0 * infinity, not a number, and its
\* conversion to size_t is undefined: whatever it gives, the clamp keeps it
\* in 0 .. nBins - 1
BinsOf(x) ==
    IF End = Start THEN 0 .. nBins - 1
    ELSE {ClampBin(BinIndex(x, Start, nBins_by_interval), nBins)}

\* ++freq[b]
Increment(f, b) == [c \in DOMAIN f |-> IF c = b THEN f[c] + 1 ELSE f[c]]

\* std::accumulate(freq.begin(), freq.end(), 0.0)
RECURSIVE Accumulate(_, _)
Accumulate(f, n) == IF n = 0 THEN 0 ELSE f[n - 1] + Accumulate(f, n - 1)

GetTotalCount == Accumulate(freq, nBins)

GetOverflow == overflow

GetUnderflow == underflow

\* Histogram(Start, End, nBins)
Histogram(s, e, n) ==
    /\ Start = s
    /\ End = e
    /\ nBins_by_interval = << n, e - s >>
    /\ nBins = n
    /\ overflow = 0
    /\ underflow = 0
    /\ freq = [b \in 0 .. n - 1 |-> 0]
    /\ adds = 0
    /\ lastX = 0
    /\ constructed = TRUE
    /\ histFault = FALSE

\* void Add(const T& x).  With no bin freq is empty and nBins - 1 wraps to
\* the largest size_t, so that the clamp keeps nothing in: ++freq[...] writes
\* outside the vector, which never allocated, and the run ends in a
\* segmentation fault
Add(x) ==
    /\ constructed
    /\ ~histFault
    /\ adds < MaxAdds
    /\ adds' = adds + 1
    /\ lastX' = x
    /\ IF x < Start
       THEN /\ underflow' = underflow + 1
            /\ UNCHANGED << overflow, freq, histFault >>
       ELSE IF x > End
       THEN /\ overflow' = overflow + 1
            /\ UNCHANGED << underflow, freq, histFault >>
       ELSE IF nBins = 0
       THEN /\ histFault' = TRUE
            /\ UNCHANGED << overflow, underflow, freq >>
       ELSE /\ \E b \in BinsOf(x) : freq' = Increment(freq, b)
            /\ UNCHANGED << overflow, underflow, histFault >>
    /\ UNCHANGED << Start, End, nBins_by_interval, nBins, constructed, calibrationVars,
                    bootVars >>

HistogramInit ==
    /\ CalibrationIdle
    /\ BootstrapIdle
    /\ \E s \in 0 .. 2, e \in 0 .. MaxValue - 1, n \in 0 .. MaxBins :
          Histogram(s, e, n)

HistogramNext == \E x \in HistogramValues : Add(x)

HistogramSpec == HistogramInit /\ [][HistogramNext]_vars

(***************************************************************************)
(* SfM bootstrapping (src/unnamed/part_001): the choice of the first pair. *)
(* A pair carries what the loop reads of it: whether both intrinsics are   *)
(* pinholes, and its tracks that pass the epipolar and the depth tests,    *)
(* each with its angle and its point in the two views.  Angles are counted *)
(* in units of pi/36 radian.  What the pairs directory holds is the input; *)
(* the run starts at the loop over the pairs.                              *)
(***************************************************************************)
MaxPairs == 2
minAngle == 5
maxLevel == 16

radianToDegree(a) == a * 5

\* std::nth_element(...); angles[n]: the element of rank n (from 0)
NthElement(angles, n) ==
    CHOOSE v \in Range(angles) :
        /\ Cardinality({k \in DOMAIN angles : angles[k] < v}) <= n
        /\ Cardinality({k \in DOMAIN angles : angles[k] <= v}) > n

\* no track of the pair passes the tests: angles is empty, never allocated
NoAngle(pair) == pair.tracks = << >>

\* estimatePairAngle: resultAngle, the median of the angles, when there is one
resultAngle(pair) ==
    LET angles == [k \in DOMAIN pair.tracks |-> pair.tracks[k].angle]
    IN  NthElement(angles, Len(angles) \div 2)

\* the sum of computeScore from level `shift` on
RECURSIVE LevelSum(_, _, _)
LevelSum(pts, shift, levels) ==
    IF shift >= levels THEN 0
    ELSE LET size == Cardinality({<< pt[1] \div Power2(shift), pt[2] \div Power2(shift) >> :
                                     pt \in pts})
         IN  (IF size <= 1 THEN 0 ELSE Power2(levels - shift) * size)
                + LevelSum(pts, shift + 1, levels)

\* computeScore(mapTracks, usedTracks, viewId, maxLevel); side is "ref" or "next"
computeScore(usedTracks, side, levels) ==
    LevelSum({(IF side = "ref" THEN usedTracks[k].ref ELSE usedTracks[k].next) :
                 k \in DOMAIN usedTracks}, 1, levels)

\* std::min(refScore, nextScore) * radianToDegree(angle)
PairScore(pair, angle) ==
    Min(computeScore(pair.tracks, "ref", maxLevel), computeScore(pair.tracks, "next", maxLevel))
        * radianToDegree(angle)

\* if (score > bestScore)
Better(score, best) == score > best

\* one iteration of the loop over the pairs.  For a pinhole pair with no
\* angle estimatePairAngle reads angles[0] of the empty vector, through a null
\* pointer: the run ends there in a segmentation fault
ScorePair ==
    /\ bootPc = "loop"
    /\ pairPos < Len(reconstructedPairs)
    /\ LET pair  == reconstructedPairs[pairPos + 1]
           angle == resultAngle(pair)
       IN  IF ~pair.pinhole
           THEN /\ pairPos' = pairPos + 1
                /\ UNCHANGED << bestScore, bestPair, bestUsedTracks, bootPc, bootExit >>
           ELSE IF NoAngle(pair)
           THEN /\ bootPc' = "done"
                /\ bootExit' = "SIGSEGV"
                /\ UNCHANGED << pairPos, bestScore, bestPair, bestUsedTracks >>
           ELSE /\ pairPos' = pairPos + 1
                /\ UNCHANGED << bootPc, bootExit >>
                /\ IF radianToDegree(angle) < minAngle
                   THEN UNCHANGED << bestScore, bestPair, bestUsedTracks >>
                   ELSE IF Better(PairScore(pair, angle), bestScore)
                   THEN /\ bestPair' = pair
                        /\ bestScore' = PairScore(pair, angle)
                        /\ bestUsedTracks' = pair.tracks
                   ELSE UNCHANGED << bestScore, bestPair, bestUsedTracks >>
    /\ UNCHANGED << reconstructedPairs, builtFrom, calibrationVars, histVars >>

\* how main ends once buildSfmData was called with a pair whose members were
\* never set: getView throws on an id that is no view, and an id that happens
\* to be a view lets buildSfmData return false or true
UnsetPairOutcomes == {"exception", "EXIT_FAILURE", "EXIT_SUCCESS"}

\* buildSfmData(sfmData, bestPair, ...), Save, return
BuildSfmData ==
    /\ bootPc = "loop"
    /\ pairPos = Len(reconstructedPairs)
    /\ builtFrom' = << bestPair >>
    /\ bootPc' = "done"
    /\ IF bestPair = DefaultReconstructedPair
       THEN bootExit' \in UnsetPairOutcomes
       ELSE bootExit' = "EXIT_SUCCESS"
    /\ UNCHANGED << reconstructedPairs, pairPos, bestScore, bestPair, bestUsedTracks,
                    calibrationVars, histVars >>

Track(a, ref, next) == [angle |-> a, ref |-> ref, next |-> next]

\* no track; one track; two tracks with median 10 degrees; two with median
\* 5 degrees; three with median 0 degrees
TrackLists ==
    {<< >>,
     << Track(2, << 0, 0 >>, << 0, 0 >>) >>,
     << Track(2, << 0, 0 >>, << 0, 0 >>), Track(1, << 4, 4 >>, << 8, 8 >>) >>,
     << Track(1, << 4, 4 >>, << 8, 8 >>), Track(0, << 64, 0 >>, << 2, 2 >>) >>,
     << Track(0, << 64, 0 >>, << 2, 2 >>), Track(2, << 64, 64 >>, << 32, 0 >>),
        Track(0, << 1, 1 >>, << 65, 1 >>) >>}

\* the k-th pair read: views k and k + 10
PairLists ==
    UNION {{[k \in 1 .. n |-> [reference |-> k, next |-> k + 10, pinhole |-> f[k][1],
                                tracks |-> f[k][2]]] :
               f \in [1 .. n -> BOOLEAN \X TrackLists]} : n \in 0 .. MaxPairs}

BootstrapInit ==
    /\ CalibrationIdle
    /\ HistogramIdle
    /\ reconstructedPairs \in PairLists
    /\ pairPos = 0
    /\ bestScore = 0
    /\ bestPair = DefaultReconstructedPair
    /\ bestUsedTracks = << >>
    /\ bootPc = "loop"
    /\ builtFrom = << >>
    /\ bootExit = "running"

BootstrapNext ==
    \/ ScorePair
    \/ BuildSfmData

BootstrapSpec == BootstrapInit /\ [][BootstrapNext]_vars

(***************************************************************************)
(* Vocabulary of the properties.                                           *)
(***************************************************************************)
Returned == pc \in {"returned", "exit"}

\* the positions of aliceVision_main before it calls the procedure, and where
\* it returns without calling it
BeforeCall == {"main", "start", "exit_help", "exit_option_error", "exit_load_failed"}

InnerRun == entry = "aliceVision_main" /\ pc \notin BeforeCall

BasicRun == entry = "process_basic" /\ pc # "start"

\* the records of the accepted boards, in the order of their acceptance
AcceptedBoards == SelectSeq(processed, LAMBDA r : r.outcome = "accepted")

\* the cells of a board that hold a corner
DefinedCells(board) == {c \in DOMAIN board.cell : board.cell[c] # UndefinedIndexT}

\* the row-major numbers of the defined cells of a board, in increasing order
RECURSIVE DefinedCellNumbers(_, _)
DefinedCellNumbers(board, n) ==
    IF n = board.rows * board.cols THEN << >>
    ELSE (IF board.cell[<< n \div board.cols, n % board.cols >>] = UndefinedIndexT
          THEN << >> ELSE << n >>) \o DefinedCellNumbers(board, n + 1)

\* the landmarks made for the board of record r are those of a board whose
\* squares measure `size`: the k-th defined cell (i, j) gave landmark
\* r.pos + k at ((j - cols/2) * size, (i - rows/2) * size, 0)
BoardBuiltWithSize(r, size) ==
    LET board == boards[r.idx + 1]
        cells == DefinedCellNumbers(board, 0)
    IN  \A k \in 1 .. Len(cells) :
            /\ r.pos + k - 1 \in DOMAIN landmarks
            /\ landmarks[r.pos + k - 1].X =
                  << ((cells[k] % board.cols) - (board.cols \div 2)) * size,
                     ((cells[k] \div board.cols) - (board.rows \div 2)) * size, 0 >>

Pow2(n) == IF n = 0 THEN 1 ELSE IF n = 1 THEN 2 ELSE IF n = 2 THEN 4 ELSE IF n = 3 THEN 8 ELSE 16

ObservationsReferToViews ==
    \A l \in DOMAIN landmarks :
        \A o \in DOMAIN landmarks[l].observations : o \in DOMAIN views

(***************************************************************************)
(* C1.  process_basic reports failure to its caller whenever fewer than 2  *)
(* detection sets are supplied, and then fits no homography, solves no     *)
(* intrinsic and calls no refinement.                                      *)
(***************************************************************************)
C1_FewViewsFail ==
    (BasicRun /\ Returned /\ Cardinality(DOMAIN boardsAllImages) < 2)
        => (~result /\ solved = << >> /\ baCalls = 0)

(***************************************************************************)
(* C2.  The square size applied to the k-th accepted board (k = 0, 1, 2,   *)
(* 3, ...) is s, s, 2s, 4s, ...: equal for the first two accepted boards,  *)
(* doubling for each accepted board after them.                            *)
(***************************************************************************)
C2_ClaimedSize(k) == IF k = 0 THEN InitialSquareSize ELSE InitialSquareSize * Pow2(k - 1)

C2_SizesAsClaimed ==
    InnerRun =>
        \A k \in 1 .. Len(AcceptedBoards) :
            BoardBuiltWithSize(AcceptedBoards[k], C2_ClaimedSize(k - 1))

(***************************************************************************)
(* C2, amended.  The square size applied to the k-th accepted board is     *)
(* s, 2s, 4s, 4s, ...: it doubles after each of the first two accepted     *)
(* boards and stays at 4s from the third accepted board on; skipped boards *)
(* do not advance the sequence.                                            *)
(***************************************************************************)
C2_CodeSize(k) == IF k >= 2 THEN InitialSquareSize * 4 ELSE InitialSquareSize * Pow2(k)

C2_SizesDoubleTwice ==
    InnerRun =>
        \A k \in 1 .. Len(AcceptedBoards) :
            /\ BoardBuiltWithSize(AcceptedBoards[k], C2_CodeSize(k - 1))
            /\ AcceptedBoards[k].valid = k - 1

C2_Witness ==
    /\ InnerRun
    /\ Len(AcceptedBoards) >= 4

(***************************************************************************)
(* C3.  The boards are processed in non-decreasing order of the minimum    *)
(* distance of their defined corners to the image centre, and the boards   *)
(* processed are the detected ones.                                        *)
(***************************************************************************)
C3_Dist(board) ==
    MinDist(board, boardsAllImages[viewId].corners, view.width, view.height)

C3_ProcessedByDistance ==
    (InnerRun /\ boards # << >>) =>
        /\ \A a, b \in 1 .. Len(processed) :
              a < b => /\ processed[a].idx < processed[b].idx
                       /\ C3_Dist(boards[processed[a].idx + 1])
                             <= C3_Dist(boards[processed[b].idx + 1])
        /\ \A k \in 1 .. Len(processed) : processed[k].idx = k - 1
        /\ Len(boards) = Len(boardsAllImages[viewId].boards)
        /\ \A b \in {boards[k] : k \in 1 .. Len(boards)} :
              Cardinality({k \in 1 .. Len(boards) : boards[k] = b}) =
              Cardinality({k \in 1 .. Len(boards) : boardsAllImages[viewId].boards[k] = b})

C3_Witness ==
    /\ InnerRun
    /\ Len(processed) >= 3
    /\ boards # boardsAllImages[viewId].boards
    /\ C3_Dist(boards[1]) < C3_Dist(boards[2])
    /\ C3_Dist(boards[2]) < C3_Dist(boards[3])
    /\ C3_Dist(boardsAllImages[viewId].boards[1]) > C3_Dist(boardsAllImages[viewId].boards[3])

(***************************************************************************)
(* C4.  A board with fewer than 30 defined cells is skipped entirely: the  *)
(* iteration creates no landmark, observation, view or pose, estimates no  *)
(* pose and advances neither the acceptance index nor the square size.  A  *)
(* board with 30 or more defined cells is attempted: its landmarks are     *)
(* built and the pose estimation runs.                                     *)
(***************************************************************************)
C4_SkipBelowThirty ==
    [][(pc = "loop" /\ idx_checkerboard < Len(boards)) =>
          LET count == Cardinality(DefinedCells(boards[idx_checkerboard + 1]))
          IN  IF count < 30
              THEN /\ UNCHANGED << landmarks, views, poses, intrinsics >>
                   /\ UNCHANGED << idx_checkerboard_valid, localSquareSize, vec_inliers >>
                   /\ pc' = "loop"
                   /\ idx_checkerboard' = idx_checkerboard + 1
                   /\ Len(processed') = Len(processed) + 1
                   /\ processed'[Len(processed')].outcome = "skipped"
              ELSE /\ Cardinality(DOMAIN landmarks') = Cardinality(DOMAIN landmarks) + count
                   /\ Len(processed') = Len(processed) + 1
                   /\ processed'[Len(processed')].outcome \in {"accepted", "failed"}
      ]_vars

C4_Witness ==
    /\ InnerRun
    /\ \E a, b \in 1 .. Len(processed) :
          /\ a < b
          /\ processed[a].count = 29 /\ processed[a].outcome = "skipped"
          /\ processed[b].count = 30 /\ processed[b].outcome = "accepted"
          /\ processed[b].valid = 0

(***************************************************************************)
(* C5.  The k-th accepted board (k from 0) has the synthetic view k, the   *)
(* pose k and observations keyed by view k, whatever its position in the   *)
(* list of boards; until the views are finalized the poses are exactly     *)
(* 0..n-1 and the views are the loaded ones and 0..n-1.                    *)
(***************************************************************************)
C5_KeyedByAcceptanceOrder ==
    (InnerRun /\ processed # << >> /\ ~(Returned /\ result)) =>
        LET n == Len(AcceptedBoards)
        IN  /\ DOMAIN poses = 0 .. n - 1
            /\ DOMAIN views = (DOMAIN loaded.views) \cup (0 .. n - 1)
            /\ \A k \in 0 .. n - 1 :
                  LET r == AcceptedBoards[k + 1]
                  IN  /\ poses[k].board = r.idx
                      /\ views[k].viewId = k
                      /\ views[k].poseId = k
                      /\ views[k].intrinsicId = view.intrinsicId
                      /\ \A p \in r.pos .. r.pos + r.count - 1 :
                            /\ p \in DOMAIN landmarks
                            /\ DOMAIN landmarks[p].observations = {k}

C5_Witness ==
    /\ InnerRun
    /\ ~Returned
    /\ Len(AcceptedBoards) >= 2
    /\ \E k \in 1 .. Len(AcceptedBoards) : AcceptedBoards[k].idx > k - 1

(***************************************************************************)
(* C6.  When the single-image procedure returns success the view table     *)
(* holds exactly the original view under the original view id, and the     *)
(* pose table exactly one pose, under the original view id, equal to the   *)
(* refined pose of the first accepted board.                               *)
(***************************************************************************)
C6_FinalViewAndPose ==
    (InnerRun /\ Returned /\ result) =>
        /\ views = (viewId :> loaded.views[viewId])
        /\ DOMAIN poses = {viewId}
        /\ AcceptedBoards # << >>
        /\ poses[viewId] = [board |-> AcceptedBoards[1].idx, refined |-> baCalls,
                            finite |-> TRUE]

(***************************************************************************)
(* C7.  Every observation's view id is a view of the scene, in the scene   *)
(* handed to each refinement call and in the scene left when a run         *)
(* returns, in both procedures.                                            *)
(***************************************************************************)
C7_ObservationsHaveViews ==
    (pc \in {"adjust1", "adjust2", "basic_adjust", "returned", "exit"})
        => ObservationsReferToViews

(***************************************************************************)
(* C8.  If the pose estimation of a board yields fewer than 10 inliers the *)
(* run returns failure at once: that board is the last one processed, no   *)
(* refinement is called and the views and poses are not finalized.         *)
(***************************************************************************)
C8_PoseFailureAborts ==
    [][/\ (/\ pc = "loop"
           /\ idx_checkerboard < Len(boards)
           /\ Cardinality(DefinedCells(boards[idx_checkerboard + 1])) >= 30
           /\ vec_inliers' < 10)
          => /\ pc' = "returned"
             /\ ~result'
             /\ baCalls' = 0
             /\ UNCHANGED << views, poses, intrinsics, idx_checkerboard,
                             idx_checkerboard_valid >>
             /\ DOMAIN poses' = 0 .. idx_checkerboard_valid - 1
             /\ DOMAIN views' = (DOMAIN loaded.views) \cup (0 .. idx_checkerboard_valid - 1)
       /\ (pc = "returned" /\ ~result)
          => /\ pc' = "exit"
             /\ exitCode' = EXIT_FAILURE
             /\ UNCHANGED << sfmVars, baCalls, saved, idx_checkerboard, processed >>
       /\ pc = "exit" => UNCHANGED vars
      ]_vars

C8_Witness ==
    /\ InnerRun
    /\ pc = "exit"
    /\ Len(processed) >= 2
    /\ Len(processed) < Len(boards)
    /\ processed[Len(processed)].outcome = "failed"
    /\ vec_inliers = 9
    /\ processed[Len(processed)].valid >= 1
    /\ baCalls = 0

(***************************************************************************)
(* C9.  If the intrinsic of the view is missing or is not a pinhole, the   *)
(* single-image procedure returns failure before any board is sorted or    *)
(* processed: no view, pose, landmark or observation is created and no     *)
(* refinement is called.                                                   *)
(***************************************************************************)
C9_BadIntrinsic ==
    LET vid == FirstKey(boardsAllImages)
        iid == loaded.views[vid].intrinsicId
    IN  \/ iid \notin DOMAIN loaded.intrinsics
        \/ loaded.intrinsics[iid].type # "pinhole"

C9_BadIntrinsicAborts ==
    (InnerRun /\ Cardinality(DOMAIN boardsAllImages) = 1 /\ C9_BadIntrinsic) =>
        /\ Returned
        /\ ~result
        /\ boards = << >>
        /\ processed = << >>
        /\ landmarks = EmptyMap
        /\ poses = EmptyMap
        /\ views = loaded.views
        /\ intrinsics = loaded.intrinsics
        /\ baCalls = 0

C9_Witness ==
    /\ InnerRun
    /\ pc = "exit"
    /\ Cardinality(DOMAIN boardsAllImages) = 1
    /\ loaded.intrinsics[loaded.views[FirstKey(boardsAllImages)].intrinsicId].type # "pinhole"
    /\ Len(boardsAllImages[FirstKey(boardsAllImages)].boards) >= 1

(***************************************************************************)
(* C10.  With no detection set or more than one, the single-image          *)
(* procedure returns failure and leaves the views, poses, landmarks and    *)
(* intrinsics of the scene as they were.                                   *)
(***************************************************************************)
C10_OneDetectionSetRequired ==
    (InnerRun /\ Cardinality(DOMAIN boardsAllImages) # 1) =>
        /\ Returned
        /\ ~result
        /\ views = loaded.views
        /\ poses = loaded.poses
        /\ landmarks = loaded.landmarks
        /\ intrinsics = loaded.intrinsics
        /\ baCalls = 0
        /\ (pc = "exit" => exitCode = EXIT_FAILURE)

C10_Witness ==
    /\ InnerRun
    /\ pc = "exit"
    /\ Cardinality(DOMAIN boardsAllImages) = 2
    /\ loaded.poses # EmptyMap
    /\ loaded.landmarks # EmptyMap

(***************************************************************************)
(* C11.  Whenever ba.adjust reports failure (first or second pass of the   *)
(* single-image procedure, any pass of the several-views procedure) the    *)
(* procedure returns failure from that very step with the scene as the     *)
(* solver left it; afterwards nothing calls the solver, finalizes the      *)
(* views or the poses, or turns the result into a success.                 *)
(***************************************************************************)
C11_AdjustFailureAborts ==
    [][/\ baFailed' => (pc' \in {"returned", "exit"} /\ ~result')
       /\ (~baFailed /\ baFailed')
          => /\ pc \in {"adjust1", "adjust2", "basic_adjust"}
             /\ baCalls' = baCalls + 1
             /\ logError' = "Failed to calibrate"
             /\ UNCHANGED sfmVars
       /\ baFailed
          => /\ UNCHANGED << sfmVars, baCalls, saved >>
             /\ exitCode' = EXIT_FAILURE
      ]_vars

C11_Witness ==
    /\ baFailed
    /\ pc = "exit"
    /\ InnerRun
    /\ baCalls = 2
    /\ Cardinality(DOMAIN poses) >= 2

(***************************************************************************)
(* C12.  When the closed form of an intrinsic with accepted homographies   *)
(* is degenerate (B00*B11 - B01^2 not positive, or another operand of a    *)
(* square root not positive) process_basic returns failure in that         *)
(* iteration: the matrix is not written into the intrinsic, no pose is     *)
(* seeded from it and ba.adjust is not called for it.                      *)
(***************************************************************************)
C12_DegeneracyReported ==
    \A k \in 1 .. Len(solved) :
        (solved[k].accepted # {} /\ ~solved[k].finite) =>
            /\ k = Len(solved)
            /\ Returned
            /\ ~result
            /\ intrinsics[solved[k].intrinsic].K # "nonfinite"
            /\ \A v \in DOMAIN poses : poses[v].finite
            /\ baCalls = k - 1

\* the part of C13 that is about homographies, poses and observations
C13_RejectedLeaveNoTrace ==
    \A k \in 1 .. Len(solved) :
        \A v \in solved[k].candidates \ solved[k].accepted :
            /\ k = Len(solved) => v \notin homographies
            /\ v \notin DOMAIN poses
            /\ \A l \in DOMAIN landmarks :
                  v \in DOMAIN landmarks[l].observations
                     => /\ l \in DOMAIN loaded.landmarks
                        /\ landmarks[l] = loaded.landmarks[l]

(***************************************************************************)
(* C13.  In process_basic a view whose homography fit has fewer than 10    *)
(* inliers contributes nothing: it is not among the homographies of the    *)
(* Zhang system, gets no pose and no observation, and the board            *)
(* dimensions of its intrinsic (which size the shared grid and enter the   *)
(* consistency check) are those of the accepted views alone.               *)
(***************************************************************************)
C13_RejectedContributeNothing ==
    /\ C13_RejectedLeaveNoTrace
    /\ \A k \in 1 .. Len(solved) :
          /\ solved[k].w = MaxOver({Cols(BoardOf(v)) : v \in solved[k].accepted})
          /\ solved[k].h = MaxOver({Rows(BoardOf(v)) : v \in solved[k].accepted})

(***************************************************************************)
(* C14.  Phases of the single-image procedure.  ba.adjust is called only   *)
(* once the loop has gone through every board, none of which failed; the   *)
(* aspect step follows a successful first call exactly when the simple     *)
(* pinhole is selected and is followed by the second call; the             *)
(* finalization follows a successful last call, which is the second one    *)
(* with the simple pinhole and the first one otherwise; success is         *)
(* returned by the finalization only.                                      *)
(***************************************************************************)
C14_PhaseOrder ==
    [][entry = "aliceVision_main" =>
        /\ baCalls' # baCalls
           => /\ baCalls' = baCalls + 1
              /\ pc \in {"adjust1", "adjust2"}
              /\ idx_checkerboard = Len(boards)
              /\ Len(processed) = Len(boards)
              /\ \A k \in 1 .. Len(processed) : processed[k].outcome # "failed"
        /\ pc' = "adjust1" => (pc = "loop" /\ baCalls = 0)
        /\ (pc = "adjust1" /\ ~baFailed')
           => pc' = (IF useSimplePinhole THEN "aspect" ELSE "finalize")
        /\ pc' = "aspect" => (pc = "adjust1" /\ useSimplePinhole /\ ~baFailed')
        /\ pc = "aspect" => (pc' = "adjust2" /\ baCalls' = 1)
        /\ pc' = "adjust2" => pc = "aspect"
        /\ (pc = "adjust2" /\ ~baFailed') => (pc' = "finalize" /\ baCalls' = 2)
        /\ pc' = "finalize"
           => /\ pc \in {"adjust1", "adjust2"}
              /\ ~baFailed'
              /\ baCalls' = (IF useSimplePinhole THEN 2 ELSE 1)
              /\ intrinsics'[view.intrinsicId].ratioLocked = useSimplePinhole
        /\ pc = "finalize" => (pc' = "returned" /\ result' /\ UNCHANGED baCalls)
        /\ (result' /\ ~result) => pc = "finalize"
      ]_vars

C14_Witness ==
    /\ InnerRun
    /\ pc = "exit"
    /\ result
    /\ useSimplePinhole
    /\ baCalls = 2
    /\ Len(AcceptedBoards) >= 2
    /\ Len(processed) > Len(AcceptedBoards)

(***************************************************************************)
(* C15.  In both procedures the landmarks handed to ba.adjust were all     *)
(* built by the run: no landmark the scene held when it was loaded, and    *)
(* no observation of such a landmark, is still there.                      *)
(***************************************************************************)
C15_LandmarksRebuilt ==
    (pc \in {"adjust1", "adjust2", "basic_adjust"}) =>
        \A l \in (DOMAIN loaded.landmarks) \cap (DOMAIN landmarks) :
            /\ landmarks[l].X # loaded.landmarks[l].X
            /\ \A o \in (DOMAIN loaded.landmarks[l].observations)
                           \cap (DOMAIN landmarks[l].observations) :
                  landmarks[l].observations[o] # loaded.landmarks[l].observations[o]

C15_InnerLandmarksRebuilt ==
    entry = "aliceVision_main" => C15_LandmarksRebuilt

(***************************************************************************)
(* C16.  process_basic returns failure, without calling ba.adjust, in the  *)
(* iteration of an intrinsic whose maximum board dimensions differ from    *)
(* those of the first intrinsic processed; the shared grid of landmarks is *)
(* created once, by the first iteration, with one landmark per cell of     *)
(* that first intrinsic's maximum dimensions, and never grows.             *)
(***************************************************************************)
C16_OneGridConsistentSizes ==
    (BasicRun /\ solved # << >>) =>
        LET f == solved[1]
        IN  /\ f.wasFirst
            /\ global_max_checkerboard_w = f.w
            /\ global_max_checkerboard_h = f.h
            /\ \A n \in 0 .. f.w * f.h - 1 :
                  /\ n \in DOMAIN landmarks
                  /\ landmarks[n].X = << n % f.w, n \div f.w, 0 >>
            /\ DOMAIN landmarks = (DOMAIN loaded.landmarks) \cup (0 .. f.w * f.h - 1)
            /\ \A k \in 2 .. Len(solved) :
                  /\ ~solved[k].wasFirst
                  /\ (solved[k].w # f.w \/ solved[k].h # f.h)
                     => /\ k = Len(solved)
                        /\ Returned
                        /\ ~result
                        /\ logError = "Inconsistent checkerboard size"
                        /\ baCalls = k - 1

C16_Witness ==
    /\ BasicRun
    /\ pc = "returned"
    /\ ~result
    /\ Len(solved) = 2
    /\ solved[1].w = 4 /\ solved[1].h = 3
    /\ solved[2].w = 4 /\ solved[2].h = 4
    /\ solved[2].accepted # {}
    /\ logError = "Inconsistent checkerboard size"

(***************************************************************************)
(* C17.  The aspect step of the simple pinhole is idempotent.  Applied to  *)
(* an intrinsic whose vertical scale equals its horizontal scale it leaves *)
(* the scale and the y coordinate of every observation as they were, and   *)
(* applied to what it produced it leaves the scale as it is.  The          *)
(* coordinates are doubles: ny = (y - pp) / s * s + pp is y only when the  *)
(* roundings of the difference, the quotient, the product and the sum      *)
(* cancel.                                                                 *)
(***************************************************************************)
C17_AspectIdempotent ==
    [][pc = "aspect" =>
        LET id == view.intrinsicId
        IN  /\ intrinsics[id].scale[1] = intrinsics[id].scale[2]
               => /\ intrinsics'[id].scale = intrinsics[id].scale
                  /\ landmarks' = landmarks
            /\ AspectIntrinsic(intrinsics'[id]) = intrinsics'[id]
      ]_vars

\* |x|, v - w and x * 2^k, exact
C17_Abs(x) == << Abs(x[1]), x[2], x[3] >>

C17_Diff(v, w) == DSumExact(v, DNeg(w))

C17_TimesPower2(x, k) == << x[1], x[2], x[3] + k >>

\* v <= w
C17_AtMost(v, w) == C17_Diff(w, v)[1] >= 0

\* |y2 - y| <= 2^(-51) * (|y| + |y - pp|): each of the four roundings moves
\* the result by at most 2^(-53) of what it rounds, the first three a number
\* near y - pp and the last a number near y
C17_WithinRounding(y2, y, pp) ==
    C17_AtMost(C17_TimesPower2(C17_Abs(C17_Diff(y2, y)), 51),
               DSumExact(C17_Abs(y), C17_Abs(C17_Diff(y, DInt(pp)))))

\* lms and lms2 differ only in the y coordinates of the observations, and
\* there only by what the roundings can leave
C17_SameUpToRounding(lms, lms2, pp) ==
    /\ DOMAIN lms = DOMAIN lms2
    /\ \A l \in DOMAIN lms :
          /\ DOMAIN lms[l].observations = DOMAIN lms2[l].observations
          /\ [lms2[l] EXCEPT !.observations = lms[l].observations] = lms[l]
          /\ \A o \in DOMAIN lms[l].observations :
                /\ [lms2[l].observations[o] EXCEPT !.x = lms[l].observations[o].x]
                      = lms[l].observations[o]
                /\ lms2[l].observations[o].x[1] = lms[l].observations[o].x[1]
                /\ C17_WithinRounding(lms2[l].observations[o].x[2],
                                      lms[l].observations[o].x[2], pp)

\* C17, as the code has it: with equal scales the step leaves the scale as
\* it was, bit for bit, and moves the y coordinate of an observation by no
\* more than 2^(-51) * (|y| + |y - pp|), pp the y of the principal point;
\* applied to what it produced it leaves the scale as it is
C17_AspectIdempotentUpToRounding ==
    [][pc = "aspect" =>
        LET id == view.intrinsicId
        IN  /\ intrinsics[id].scale[1] = intrinsics[id].scale[2]
               => /\ intrinsics'[id].scale = intrinsics[id].scale
                  /\ C17_SameUpToRounding(landmarks, landmarks',
                                          getPrincipalPoint(intrinsics[id])[2])
            /\ AspectIntrinsic(intrinsics'[id]) = intrinsics'[id]
      ]_vars

\* the y coordinates the loop stored for the corners of the image
C17_StoredY ==
    {UdPixel(loaded.intrinsics[view.intrinsicId], c.center, fpContract)[2] :
        c \in Range(boardsAllImages[viewId].corners)}

C17_MovedFrom(stored) ==
    \E l \in DOMAIN landmarks : \E o \in DOMAIN landmarks[l].observations :
        landmarks[l].observations[o].x[2] \notin stored

\* the step has run on equal scales, in the image of 8192 x 8192 pixels, and
\* an observation has a y coordinate that the loop stored for no corner
C17_Witness ==
    /\ pc = "adjust2"
    /\ loaded.intrinsics[view.intrinsicId].scale[1]
          = loaded.intrinsics[view.intrinsicId].scale[2]
    /\ intrinsics[view.intrinsicId].scale = loaded.intrinsics[view.intrinsicId].scale
    /\ view.height = 8192
    /\ C17_MovedFrom(C17_StoredY)

(***************************************************************************)
(* C18.  No step indexes the corner list with the undefined index: not the *)
(* comparator of the sort, not the loop that builds the landmarks of a     *)
(* board, not the loops of process_basic that gather the points of a       *)
(* homography and attach the observations.                                 *)
(***************************************************************************)
C18_UndefinedNeverIndexed == ~undefinedRead

C18_Witness ==
    /\ InnerRun
    /\ pc = "exit"
    /\ result
    /\ Len(boards) >= 2
    /\ \E k \in 1 .. Len(processed) :
          /\ processed[k].outcome = "accepted"
          /\ UndefinedIndexT \in Range(boards[processed[k].idx + 1].cell)

(***************************************************************************)
(* C19.  process_basic runs the Zhang solve of an intrinsic only when at   *)
(* least one homography was accepted for it: an intrinsic with no accepted *)
(* homography keeps the calibration matrix it was loaded with.             *)
(***************************************************************************)
C19_NoHomographyNoSolve ==
    \A k \in 1 .. Len(solved) :
        solved[k].accepted = {}
           => intrinsics[solved[k].intrinsic].K = loaded.intrinsics[solved[k].intrinsic].K

(***************************************************************************)
(* C20.  When process_innerGrids returns success at least one board was    *)
(* accepted, and the pose stored for the view is the refined pose of an    *)
(* accepted board, not a default-constructed one.                          *)
(***************************************************************************)
C20_SuccessHasAcceptedBoard ==
    (InnerRun /\ Returned /\ result) =>
        /\ Len(AcceptedBoards) >= 1
        /\ poses[viewId].board # DefaultPose.board
        /\ \E k \in 1 .. Len(AcceptedBoards) : poses[viewId].board = AcceptedBoards[k].idx

(***************************************************************************)
(* C21.  After a successful run the pose of a calibrated view is in the    *)
(* pose table under the pose id of that view: the single final pose of     *)
(* process_innerGrids under the pose id of the final view, each pose       *)
(* seeded by process_basic under the pose id of the view it was computed   *)
(* for.                                                                    *)
(***************************************************************************)
C21_InnerPoseUnderPoseId ==
    (entry = "aliceVision_main" /\ Returned /\ result)
        => DOMAIN poses = {views[viewId].poseId}

C21_BasicPosesUnderPoseIds ==
    (entry = "process_basic" /\ Returned /\ result) =>
        \A k \in 1 .. Len(solved) :
            \A v \in solved[k].accepted :
                /\ views[v].poseId \in DOMAIN poses
                /\ poses[views[v].poseId].board = v

C21_PosesUnderPoseIds ==
    /\ C21_InnerPoseUnderPoseId
    /\ C21_BasicPosesUnderPoseIds

\* one call of Add has changed exactly one counter, the one its argument
\* belongs to, and the counters add up to the number of calls
C22_OneCounterAdded ==
    adds' # adds =>
        /\ adds' = adds + 1
        /\ lastX' < Start
           => (underflow' = underflow + 1 /\ UNCHANGED << overflow, freq >>)
        /\ (lastX' >= Start /\ lastX' > End)
           => (overflow' = overflow + 1 /\ UNCHANGED << underflow, freq >>)
        /\ (lastX' >= Start /\ lastX' <= End)
           => /\ UNCHANGED << overflow, underflow >>
              /\ DOMAIN freq' = 0 .. nBins - 1
              /\ \E b \in 0 .. nBins - 1 :
                    /\ freq'[b] = freq[b] + 1
                    /\ \A c \in (0 .. nBins - 1) \ {b} : freq'[c] = freq[c]
                    /\ lastX' = End => b = nBins - 1
        /\ Accumulate(freq', nBins) + overflow' + underflow' = adds'

(***************************************************************************)
(* C22: from a freshly constructed histogram, every Add(x) increments      *)
(* exactly one counter by one: the underflow if x < Start, the overflow if *)
(* x > End, otherwise exactly one bin with index in 0 .. nBins - 1, the    *)
(* last one for x = End; so GetTotalCount() + GetOverflow() +              *)
(* GetUnderflow() is the number of calls.                                  *)
(***************************************************************************)
C22_OneCounterPerAdd == [][C22_OneCounterAdded]_vars

\* what Add does guarantee: the same, for the histograms with at least one
\* bin and Start < End
C22_OneCounterPerAddInRange ==
    [][(nBins >= 1 /\ Start < End) => C22_OneCounterAdded]_vars

C22_Witness ==
    /\ constructed
    /\ adds >= 3
    /\ nBins >= 2
    /\ underflow >= 1
    /\ overflow >= 1
    /\ lastX = End
    /\ freq[nBins - 1] >= 1
    /\ GetTotalCount + GetOverflow + GetUnderflow = adds

\* estimatePairAngle succeeded and the median angle is at least minAngle degrees
Qualifies(pair) ==
    /\ pair.pinhole
    /\ ~NoAngle(pair)
    /\ radianToDegree(resultAngle(pair)) >= minAngle

\* the positions of the loaded pairs that qualify
Qualifying == {k \in DOMAIN reconstructedPairs : Qualifies(reconstructedPairs[k])}

\* position k holds the first pair of maximal score among the qualifying ones
FirstBest(k) ==
    /\ k \in Qualifying
    /\ \A j \in Qualifying :
          LET sj == PairScore(reconstructedPairs[j], resultAngle(reconstructedPairs[j]))
              sk == PairScore(reconstructedPairs[k], resultAngle(reconstructedPairs[k]))
          IN  sj <= sk /\ (sj = sk => k <= j)

(***************************************************************************)
(* C23: the pair passed to buildSfmData is a loaded pair for which         *)
(* estimatePairAngle succeeded and whose median angle is at least minAngle *)
(* degrees, with the maximal score (the smaller of the two view scores     *)
(* times the angle) among such pairs, the earliest winning ties; when no   *)
(* loaded pair qualifies, buildSfmData is not called, so that no scene is  *)
(* built from a default-constructed pair.                                  *)
(***************************************************************************)
C23_BestQualifyingPairBuilt ==
    /\ builtFrom # << >> =>
          \E k \in DOMAIN reconstructedPairs :
              builtFrom = << reconstructedPairs[k] >> /\ FirstBest(k)
    /\ (bootPc = "done" /\ Qualifying = {}) => builtFrom = << >>

\* what the loop does guarantee: once a qualifying pair has a positive score,
\* the pair passed to buildSfmData is the first of maximal score
C23_BestOfPositiveScores ==
    (/\ builtFrom # << >>
     /\ \E j \in Qualifying :
           PairScore(reconstructedPairs[j], resultAngle(reconstructedPairs[j])) > 0)
        => \E k \in DOMAIN reconstructedPairs :
              builtFrom = << reconstructedPairs[k] >> /\ FirstBest(k)

\* two qualifying pairs of the same positive score, the first one built
C23_TieReached ==
    /\ builtFrom # << >>
    /\ builtFrom[1] # DefaultReconstructedPair
    /\ \E j, k \in Qualifying :
          /\ j < k
          /\ builtFrom = << reconstructedPairs[j] >>
          /\ PairScore(reconstructedPairs[j], resultAngle(reconstructedPairs[j]))
                = PairScore(reconstructedPairs[k], resultAngle(reconstructedPairs[k]))

====
